---- MODULE Spec2Model ----
(***************************************************************************)
(* A model of the mcp-creator pipeline of iblai-mcp: HARParser.parse()     *)
(* (record classifier, path normalizer, auth pattern detector, endpoint    *)
(* aggregator, service identity) followed by MCPGenerator.generate().      *)
(*                                                                         *)
(* Text is modelled at the level of characters: a string of the program is *)
(* a sequence of one-character strings, so that lower(), startswith(),     *)
(* substring tests and the regular expressions of the source are computed  *)
(* and not assumed.                                                        *)
(***************************************************************************)
EXTENDS Integers, Sequences, FiniteSets, TLC

\* ------------------------------------------------------------------------
\* Characters and the str methods the source uses
\* ------------------------------------------------------------------------

Digits == {"0", "1", "2", "3", "4", "5", "6", "7", "8", "9"}

DigitSeq == <<"0", "1", "2", "3", "4", "5", "6", "7", "8", "9">>

LowerLetters ==
  <<"a", "b", "c", "d", "e", "f", "g", "h", "i", "j", "k", "l", "m",
    "n", "o", "p", "q", "r", "s", "t", "u", "v", "w", "x", "y", "z">>

UpperLetters ==
  <<"A", "B", "C", "D", "E", "F", "G", "H", "I", "J", "K", "L", "M",
    "N", "O", "P", "Q", "R", "S", "T", "U", "V", "W", "X", "Y", "Z">>

Range(s) == {s[i] : i \in DOMAIN s}

AlphaNum == Range(LowerLetters) \cup Range(UpperLetters) \cup Digits

\* \w of the re module, on the ASCII characters of the model
WordChars == AlphaNum \cup {"_"}

\* [0-9a-f] under re.IGNORECASE
HexChars == Digits \cup {"a", "b", "c", "d", "e", "f", "A", "B", "C", "D", "E", "F"}

Min(a, b) == IF a <= b THEN a ELSE b

\* the characters of a string literal, as the sequence the model computes on
Chars(str) == [i \in 1..Len(str) |-> SubSeq(str, i, i)]

\* str.lower() on one character
LowerChar(c) ==
  IF c \in Range(UpperLetters)
    THEN LowerLetters[CHOOSE i \in DOMAIN UpperLetters : UpperLetters[i] = c]
    ELSE c

\* str.upper() on one character
UpperChar(c) ==
  IF c \in Range(LowerLetters)
    THEN UpperLetters[CHOOSE i \in DOMAIN LowerLetters : LowerLetters[i] = c]
    ELSE c

\* str.lower()
Lower(s) == [i \in 1..Len(s) |-> LowerChar(s[i])]

\* str.upper()
Upper(s) == [i \in 1..Len(s) |-> UpperChar(s[i])]

\* s[a:] of Python, a counted from 0
SliceFrom(s, a) == IF a >= Len(s) THEN <<>> ELSE SubSeq(s, a + 1, Len(s))

\* s[:b] of Python, b counted from 0
SliceTo(s, b) == SubSeq(s, 1, Min(b, Len(s)))

\* the substring of s that starts at position p (from 1) is sub
MatchAt(s, p, sub) ==
  /\ p >= 1
  /\ p + Len(sub) - 1 <= Len(s)
  /\ \A k \in 1..Len(sub) : s[p + k - 1] = sub[k]

\* str.startswith
StartsWith(s, prefix) == MatchAt(s, 1, prefix)

\* str.endswith
EndsWith(s, suffix) == MatchAt(s, Len(s) - Len(suffix) + 1, suffix)

\* sub in s
Contains(s, sub) == \E p \in 1..(Len(s) + 1) : MatchAt(s, p, sub)

\* str.strip(c) for a one-character argument
RECURSIVE LStrip(_, _)
LStrip(s, c) == IF s # <<>> /\ Head(s) = c THEN LStrip(Tail(s), c) ELSE s

RECURSIVE RStrip(_, _)
RStrip(s, c) ==
  IF s # <<>> /\ s[Len(s)] = c THEN RStrip(SubSeq(s, 1, Len(s) - 1), c) ELSE s

Strip(s, c) == RStrip(LStrip(s, c), c)

\* str.replace(old, new): every non-overlapping occurrence, left to right;
\* old is never empty where the source calls it
RECURSIVE ReplaceAll(_, _, _)
ReplaceAll(s, old, new) ==
  IF s = <<>> THEN <<>>
  ELSE IF MatchAt(s, 1, old)
    THEN new \o ReplaceAll(SliceFrom(s, Len(old)), old, new)
    ELSE <<Head(s)>> \o ReplaceAll(Tail(s), old, new)

\* str(i) for a natural number
RECURSIVE DecStr(_)
DecStr(n) ==
  IF n < 10 THEN <<DigitSeq[n + 1]>> ELSE DecStr(n \div 10) \o <<DigitSeq[(n % 10) + 1]>>

\* "sep".join(parts)
RECURSIVE Join(_, _)
Join(parts, sep) ==
  IF parts = <<>> THEN <<>>
  ELSE IF Len(parts) = 1 THEN parts[1]
  ELSE parts[1] \o sep \o Join(Tail(parts), sep)

\* the concatenation of a sequence of strings
RECURSIVE Concat(_)
Concat(parts) == IF parts = <<>> THEN <<>> ELSE Head(parts) \o Concat(Tail(parts))

\* ------------------------------------------------------------------------
\* Path Normalizer: HARParser._extract_path_params
\* ------------------------------------------------------------------------

\* p is the start of a run of n hexadecimal digits of s
HexRun(s, p, n) == \A k \in p..(p + n - 1) : s[k] \in HexChars

\* uuid_pattern matches s at position p: "/" and 8-4-4-4-12 hexadecimal digits
UuidAt(s, p) ==
  /\ p + 36 <= Len(s)
  /\ s[p] = "/"
  /\ HexRun(s, p + 1, 8)
  /\ s[p + 9] = "-"
  /\ HexRun(s, p + 10, 4)
  /\ s[p + 14] = "-"
  /\ HexRun(s, p + 15, 4)
  /\ s[p + 19] = "-"
  /\ HexRun(s, p + 20, 4)
  /\ s[p + 24] = "-"
  /\ HexRun(s, p + 25, 12)

\* re.finditer(uuid_pattern, path, re.IGNORECASE) from position p on: the
\* start positions of the non-overlapping matches, left to right
RECURSIVE UuidMatches(_, _)
UuidMatches(s, p) ==
  IF p > Len(s) THEN <<>>
  ELSE IF UuidAt(s, p) THEN <<p>> \o UuidMatches(s, p + 37)
  ELSE UuidMatches(s, p + 1)

\* the last position of the maximal run of digits of s that starts at p
RECURSIVE DigitRunEnd(_, _)
DigitRunEnd(s, p) ==
  IF p + 1 <= Len(s) /\ s[p + 1] \in Digits THEN DigitRunEnd(s, p + 1) ELSE p

\* numeric_id_pattern /(\d+)(?=/|$) matches s at position p
NumericAt(s, p) ==
  /\ p + 1 <= Len(s)
  /\ s[p] = "/"
  /\ s[p + 1] \in Digits
  /\ LET q == DigitRunEnd(s, p + 1) IN q = Len(s) \/ s[q + 1] = "/"

\* list(re.finditer(numeric_id_pattern, normalized_path)): the matches as
\* <<start, end>> in the offsets of Python (from 0, end exclusive)
RECURSIVE NumericMatches(_, _)
NumericMatches(s, p) ==
  IF p > Len(s) THEN <<>>
  ELSE IF NumericAt(s, p)
    THEN LET q == DigitRunEnd(s, p + 1) IN <<<<p - 1, q>>>> \o NumericMatches(s, q + 1)
    ELSE NumericMatches(s, p + 1)

\* a str as a loosely-typed example value (the JStr of the JSON values below)
StrValue(cs) == [t |-> "str", items |-> <<>>, v |-> cs]

\* RequestParam
RequestParam(name, ptype, example, required, description) ==
  [name |-> name, param_type |-> ptype, example_value |-> example,
   required |-> required, description |-> description]

\* f'uuid_{i}' if i > 0 else 'id'
UuidParamName(i) == IF i > 0 THEN Chars("uuid_") \o DecStr(i) ELSE Chars("id")

\* f'id_{i}' if i > 0 else 'id'
NumericParamName(i) == IF i > 0 THEN Chars("id_") \o DecStr(i) ELSE Chars("id")

\* f'/{{{param_name}}}'
Placeholder(name) == Chars("/{") \o name \o Chars("}")

\* the loop over uuid_matches, from the i-th match (i from 0) on; acc is
\* [path |-> normalized_path, params |-> params]
RECURSIVE UuidLoop(_, _, _, _)
UuidLoop(path, matches, i, acc) ==
  IF i >= Len(matches) THEN acc
  ELSE LET p      == matches[i + 1]
           group0 == SubSeq(path, p, p + 36)
           group1 == SubSeq(path, p + 1, p + 36)
           name   == UuidParamName(i)
       IN UuidLoop(path, matches, i + 1,
            [path   |-> ReplaceAll(acc.path, group0, Placeholder(name)),
             params |-> Append(acc.params,
                          RequestParam(name, "path", StrValue(group1), TRUE,
                                       Chars("UUID identifier")))])

\* one iteration of the loop over numeric_matches: the match <<start, end>> was
\* found in src, the path before the loop, and is spliced into acc.path, the
\* path as the earlier iterations left it, at the offsets it had in src
NumericSplice(src, m, name, acc) ==
  LET group0 == SubSeq(src, m[1] + 1, m[2])
      group1 == SubSeq(src, m[1] + 2, m[2])
  IN IF ~ Contains(group0, <<"{">>)
       THEN [path   |-> SliceTo(acc.path, m[1]) \o Placeholder(name)
                          \o SliceFrom(acc.path, m[2]),
             params |-> Append(acc.params,
                          RequestParam(name, "path", StrValue(group1), TRUE,
                                       Chars("Numeric identifier")))]
       ELSE acc

RECURSIVE NumericLoop(_, _, _, _)
NumericLoop(src, matches, i, acc) ==
  IF i >= Len(matches) THEN acc
  ELSE NumericLoop(src, matches, i + 1,
         NumericSplice(src, matches[i + 1], NumericParamName(i), acc))

\* _extract_path_params(path): [path |-> normalized_path, params |-> params]
ExtractPathParams(path) ==
  LET afterUuid == UuidLoop(path, UuidMatches(path, 1), 0,
                            [path |-> path, params |-> <<>>])
  IN NumericLoop(afterUuid.path, NumericMatches(afterUuid.path, 1), 0, afterUuid)

\* ------------------------------------------------------------------------
\* Tool name: APIEndpoint.tool_name
\* ------------------------------------------------------------------------

\* the last position of the maximal run of characters of class cls from p on,
\* p - 1 when s[p] is not in cls
RECURSIVE RunEnd(_, _, _)
RunEnd(s, p, cls) ==
  IF p <= Len(s) /\ s[p] \in cls THEN RunEnd(s, p + 1, cls) ELSE p - 1

\* the last position of the maximal run of characters outside cls from p on
RECURSIVE RunEndNot(_, _, _)
RunEndNot(s, p, cls) ==
  IF p <= Len(s) /\ s[p] \notin cls THEN RunEndNot(s, p + 1, cls) ELSE p - 1

\* re.sub(r'\{(\w+)\}', r'\1', s)
RECURSIVE SubPlaceholders(_)
SubPlaceholders(s) ==
  IF s = <<>> THEN <<>>
  ELSE LET q == RunEnd(s, 2, WordChars)
       IN IF Head(s) = "{" /\ q >= 2 /\ q + 1 <= Len(s) /\ s[q + 1] = "}"
            THEN SubSeq(s, 2, q) \o SubPlaceholders(SliceFrom(s, q + 1))
            ELSE <<Head(s)>> \o SubPlaceholders(Tail(s))

\* re.sub(r'[^a-zA-Z0-9]+', '_', s)
RECURSIVE SubNonAlnum(_)
SubNonAlnum(s) ==
  IF s = <<>> THEN <<>>
  ELSE IF Head(s) \in AlphaNum THEN <<Head(s)>> \o SubNonAlnum(Tail(s))
  ELSE <<"_">> \o SubNonAlnum(SliceFrom(s, RunEndNot(s, 1, AlphaNum)))

\* method_prefix: the verb table looked up with method.upper(), and
\* method.lower() for a method the table does not have
MethodPrefix(method) ==
  LET m == Upper(method)
  IN IF m = Chars("GET") THEN Chars("get")
     ELSE IF m = Chars("POST") THEN Chars("create")
     ELSE IF m = Chars("PUT") THEN Chars("update")
     ELSE IF m = Chars("PATCH") THEN Chars("patch")
     ELSE IF m = Chars("DELETE") THEN Chars("delete")
     ELSE Lower(method)

\* a tool name that joins verb and path also when the path part is empty
ToolNameJoined(method, path) ==
  MethodPrefix(method) \o <<"_">>
    \o Lower(Strip(SubNonAlnum(SubPlaceholders(Strip(path, "/"))), "_"))

\* APIEndpoint.tool_name of an endpoint with this method and path
ToolName(method, path) ==
  LET p1 == Strip(path, "/")
      p2 == SubPlaceholders(p1)
      p3 == SubNonAlnum(p2)
      p4 == Lower(Strip(p3, "_"))
  IN IF p4 # <<>> THEN MethodPrefix(method) \o <<"_">> \o p4 ELSE MethodPrefix(method)

\* ------------------------------------------------------------------------
\* JSON values: what json.loads returns.  An object is the sequence of its
\* <<key, value>> pairs in insertion order (a Python dict), a list the
\* sequence of its elements, each paired with the empty key; a scalar carries
\* its text in v; None is JNull
\* ------------------------------------------------------------------------

JNull == [t |-> "null", items |-> <<>>, v |-> <<>>]

JStr(cs) == StrValue(cs)

JInt(cs) == [t |-> "int", items |-> <<>>, v |-> cs]

JFloat(cs) == [t |-> "float", items |-> <<>>, v |-> cs]

JBool(cs) == [t |-> "bool", items |-> <<>>, v |-> cs]

JObj(pairs) == [t |-> "obj", items |-> pairs, v |-> <<>>]

JList(vals) == [t |-> "list", items |-> [i \in DOMAIN vals |-> <<<<>>, vals[i]>>], v |-> <<>>]

\* d[k] = v on a dict kept as the sequence of its <<key, value>> pairs: a key
\* the dict has keeps its place and takes the new value
DictSet(d, k, v) ==
  IF \E i \in DOMAIN d : d[i][1] = k
    THEN [i \in DOMAIN d |-> IF d[i][1] = k THEN <<k, v>> ELSE d[i]]
    ELSE Append(d, <<k, v>>)

DictHas(d, k) == \E i \in DOMAIN d : d[i][1] = k

DictGet(d, k) == d[CHOOSE i \in DOMAIN d : d[i][1] = k][2]

DictKeys(d) == [i \in DOMAIN d |-> d[i][1]]

\* the dict built by inserting the pairs in order
RECURSIVE DictFrom(_, _)
DictFrom(pairs, acc) ==
  IF pairs = <<>> THEN acc
  ELSE DictFrom(Tail(pairs), DictSet(acc, Head(pairs)[1], Head(pairs)[2]))

\* ------------------------------------------------------------------------
\* Tables of HARParser
\* ------------------------------------------------------------------------

SKIP_HEADERS ==
  {Chars("accept-encoding"), Chars("accept-language"), Chars("cache-control"),
   Chars("pragma"), Chars("sec-ch-ua"), Chars("sec-ch-ua-mobile"),
   Chars("sec-ch-ua-platform"), Chars("sec-fetch-dest"), Chars("sec-fetch-mode"),
   Chars("sec-fetch-site"), Chars("sec-gpc"), Chars("user-agent"),
   Chars("upgrade-insecure-requests"), Chars("connection"), Chars(":method"),
   Chars(":path"), Chars(":scheme"), Chars(":authority"), Chars(":status"),
   Chars("priority"), Chars("dnt"), Chars("te"), Chars("if-none-match"),
   Chars("if-modified-since")}

\* AUTH_HEADERS as the sequence of its <<header name, auth type>> items
AUTH_HEADERS ==
  <<<<Chars("authorization"), Chars("bearer")>>,
    <<Chars("x-api-key"), Chars("api_key")>>,
    <<Chars("api-key"), Chars("api_key")>>,
    <<Chars("x-auth-token"), Chars("custom_header")>>,
    <<Chars("x-access-token"), Chars("custom_header")>>>>

STATIC_EXTENSIONS ==
  {Chars(".js"), Chars(".css"), Chars(".png"), Chars(".jpg"), Chars(".jpeg"),
   Chars(".gif"), Chars(".svg"), Chars(".ico"), Chars(".woff"), Chars(".woff2"),
   Chars(".ttf"), Chars(".eot"), Chars(".map"), Chars(".webp"), Chars(".avif")}

static_paths ==
  {Chars("/_next/static"), Chars("/static/"), Chars("/assets/"), Chars("/public/")}

auth_cookies == {Chars("session"), Chars("auth"), Chars("token"), Chars("jwt")}

\* ------------------------------------------------------------------------
\* Record Classifier
\* ------------------------------------------------------------------------

\* a classifier that looks at the extension alone and not at the directories
IsStaticResourceByExtension(urlpath) ==
  \E ext \in STATIC_EXTENSIONS : EndsWith(Lower(urlpath), ext)

\* _is_static_resource, on the path urlparse gives for the url
IsStaticResource(urlpath) ==
  LET path == Lower(urlpath)
  IN \/ \E ext \in STATIC_EXTENSIONS : EndsWith(path, ext)
     \/ \E static_path \in static_paths : Contains(path, static_path)

\* a header of this name (in lower case) declares application/json
HeaderDeclaresJson(headers, lname) ==
  \E i \in DOMAIN headers :
    /\ Lower(headers[i].name) = lname
    /\ Contains(Lower(headers[i].value), Chars("application/json"))

\* _is_api_call, on the path urlparse gives for the url and the request headers
IsApiCall(urlpath, headers) ==
  LET path == Lower(urlpath)
  IN \/ Contains(path, Chars("/api/"))
     \/ Contains(path, Chars("/v1/"))
     \/ Contains(path, Chars("/v2/"))
     \/ HeaderDeclaresJson(headers, Chars("accept"))
     \/ HeaderDeclaresJson(headers, Chars("content-type"))

\* ------------------------------------------------------------------------
\* Auth Pattern Detector: HARParser._extract_auth_patterns
\* ------------------------------------------------------------------------

AuthPattern(auth_type, header_name, example_value, location) ==
  [auth_type |-> auth_type, header_name |-> header_name,
   example_value |-> example_value, location |-> location]

\* a masking that knows the word Bearer in this case alone
MaskValueCapitalized(value) ==
  IF StartsWith(value, Chars("Bearer "))
    THEN Chars("Bearer <token>")
    ELSE Chars("<api_key>")

\* the masked example of a recognized header's value
MaskValue(value) ==
  IF StartsWith(Lower(value), Chars("bearer "))
    THEN Chars("Bearer <token>")
    ELSE Chars("<api_key>")

\* the first loop: one pattern per header whose lower-cased name is a key of
\* AUTH_HEADERS, in the order of the headers
RECURSIVE HeaderPatterns(_)
HeaderPatterns(headers) ==
  IF headers = <<>> THEN <<>>
  ELSE LET header == Head(headers)
           name   == Lower(header.name)
       IN (IF DictHas(AUTH_HEADERS, name)
             THEN <<AuthPattern(DictGet(AUTH_HEADERS, name), header.name,
                                MaskValue(header.value), "header")>>
             ELSE <<>>)
          \o HeaderPatterns(Tail(headers))

\* the second loop: the value of the first cookie header that names an auth
\* cookie gives one cookie pattern, and the loop breaks
CookiePatterns(headers) ==
  IF \E i \in DOMAIN headers :
       /\ Lower(headers[i].name) = Chars("cookie")
       /\ \E auth_cookie \in auth_cookies :
            Contains(Lower(headers[i].value), auth_cookie)
    THEN <<AuthPattern(Chars("cookie"), Chars("Cookie"),
                       Chars("<session_cookie>"), "cookie")>>
    ELSE <<>>

ExtractAuthPatterns(headers) == HeaderPatterns(headers) \o CookiePatterns(headers)

\* ------------------------------------------------------------------------
\* Query parameters: HARParser._extract_query_params
\* ------------------------------------------------------------------------

\* urllib.parse.parse_qs on the name=value pairs of the query string: a pair
\* with a blank value is dropped, a name keeps the place of its first pair
\* and the list of its values in order
RECURSIVE ParseQs(_, _)
ParseQs(pairs, acc) ==
  IF pairs = <<>> THEN acc
  ELSE LET name  == Head(pairs)[1]
           value == Head(pairs)[2]
       IN ParseQs(Tail(pairs),
            IF value = <<>> THEN acc
            ELSE IF DictHas(acc, name)
              THEN DictSet(acc, name, Append(DictGet(acc, name), value))
              ELSE Append(acc, <<name, <<value>>>>))

\* the test that skips a framework-specific parameter
IsFrameworkParam(name) ==
  \/ StartsWith(name, Chars("_"))
  \/ name \in {Chars("rsc"), Chars("callback"), Chars("jsonp")}

RECURSIVE QueryParamsOf(_)
QueryParamsOf(query_dict) ==
  IF query_dict = <<>> THEN <<>>
  ELSE LET name   == Head(query_dict)[1]
           values == Head(query_dict)[2]
       IN (IF IsFrameworkParam(name) THEN <<>>
           ELSE <<RequestParam(name, "query", StrValue(values[1]), FALSE,
                               Chars("Query parameter: ") \o name)>>)
          \o QueryParamsOf(Tail(query_dict))

\* _extract_query_params, on the pairs of the url's query string
ExtractQueryParams(query) == QueryParamsOf(ParseQs(query, <<>>))

\* ------------------------------------------------------------------------
\* Request body and response example
\* ------------------------------------------------------------------------

\* A body text is [kind, data]: kind "none" is the empty text, "json" a text
\* json.loads decodes to data, "raw" a text it rejects (data is that text, a
\* JStr)

\* the text itself, as the str a raw fallback stores: the text of a JSON
\* document is kept as the str that encodes data
RawText(text) ==
  IF text.kind = "json" THEN [t |-> "str", items |-> <<<<<<>>, text.data>>>>, v |-> <<>>]
  ELSE text.data

RawBody(text) == JObj(<<<<Chars("raw"), RawText(text)>>>>)

\* _extract_request_body, on request['postData'] = [mimeType, text, params]
ExtractRequestBody(post_data) ==
  IF post_data.text.kind = "none" THEN JNull
  ELSE IF Contains(post_data.mimeType, Chars("json"))
    THEN IF post_data.text.kind = "json" THEN post_data.text.data
         ELSE RawBody(post_data.text)
  ELSE IF Contains(post_data.mimeType, Chars("form"))
    THEN JObj(DictFrom([i \in DOMAIN post_data.params |->
                          <<post_data.params[i][1], JStr(post_data.params[i][2])>>],
                       <<>>))
  ELSE RawBody(post_data.text)

\* list(data.items())[:10]
MaxKeys == 10

\* value[:2], data[:2]
MaxItems == 2

\* the default of max_depth
MaxDepth == 3

TruncatedMarker == JObj(<<<<Chars("..."), JStr(Chars("truncated"))>>>>)

\* a truncation that places the marker one level deeper
RECURSIVE TruncateResponseBelow(_, _)
TruncateResponseBelow(data, max_depth) ==
  IF max_depth < 0 THEN TruncatedMarker
  ELSE JObj([i \in 1..Min(Len(data.items), MaxKeys) |->
              LET key   == data.items[i][1]
                  value == data.items[i][2]
              IN IF value.t = "obj"
                   THEN <<key, TruncateResponseBelow(value, max_depth - 1)>>
                 ELSE IF value.t = "list" /\ Len(value.items) > MaxItems
                   THEN <<key, [value EXCEPT !.items = SubSeq(@, 1, MaxItems)]>>
                 ELSE <<key, value>>])

\* _truncate_response(data, max_depth) for a dict data
RECURSIVE TruncateResponse(_, _)
TruncateResponse(data, max_depth) ==
  IF max_depth <= 0 THEN TruncatedMarker
  ELSE JObj([i \in 1..Min(Len(data.items), MaxKeys) |->
              LET key   == data.items[i][1]
                  value == data.items[i][2]
              IN IF value.t = "obj"
                   THEN <<key, TruncateResponse(value, max_depth - 1)>>
                 ELSE IF value.t = "list" /\ Len(value.items) > MaxItems
                   THEN <<key, [value EXCEPT !.items = SubSeq(@, 1, MaxItems)]>>
                 ELSE <<key, value>>])

\* _extract_response_example, on response['content'] = [mimeType, text]
ExtractResponseExample(content) ==
  IF content.text.kind = "none" THEN JNull
  ELSE IF Contains(content.mimeType, Chars("json"))
    THEN IF content.text.kind = "json"
           THEN LET data == content.text.data
                IN IF data.t = "obj" THEN TruncateResponse(data, MaxDepth)
                   ELSE IF data.t = "list" /\ Len(data.items) > MaxItems
                     THEN [data EXCEPT !.items = SubSeq(@, 1, MaxItems)]
                   ELSE data
           ELSE JNull
  ELSE JNull

\* _normalize_headers: the dict of the headers whose lower-cased name is not
\* in SKIP_HEADERS
RECURSIVE NormalizeHeaders(_, _)
NormalizeHeaders(headers, acc) ==
  IF headers = <<>> THEN acc
  ELSE NormalizeHeaders(Tail(headers),
         IF Lower(Head(headers).name) \notin SKIP_HEADERS
           THEN DictSet(acc, Head(headers).name, Head(headers).value)
           ELSE acc)

\* ------------------------------------------------------------------------
\* Service identity: HARParser._extract_service_name, _host_to_name
\* ------------------------------------------------------------------------

\* re.sub(r'^(www\.|api\.|blog\.)', '', name)
StripHostPrefix(name) ==
  IF StartsWith(name, Chars("www.")) THEN SliceFrom(name, 4)
  ELSE IF StartsWith(name, Chars("api.")) THEN SliceFrom(name, 4)
  ELSE IF StartsWith(name, Chars("blog.")) THEN SliceFrom(name, 5)
  ELSE name

TopLevelDomains ==
  {Chars(".com"), Chars(".org"), Chars(".net"), Chars(".io"), Chars(".ai"), Chars(".dev")}

\* re.sub(r'\.(com|org|net|io|ai|dev)$', '', name)
StripHostSuffix(name) ==
  IF \E tld \in TopLevelDomains : EndsWith(name, tld)
    THEN LET tld == CHOOSE d \in TopLevelDomains : EndsWith(name, d)
         IN SliceTo(name, Len(name) - Len(tld))
    ELSE name

\* re.sub(r'[^a-z0-9]+', '-', name)
RECURSIVE SubNonLowerAlnum(_)
SubNonLowerAlnum(s) ==
  IF s = <<>> THEN <<>>
  ELSE IF Head(s) \in Range(LowerLetters) \cup Digits
    THEN <<Head(s)>> \o SubNonLowerAlnum(Tail(s))
  ELSE <<"-">> \o SubNonLowerAlnum(
         SliceFrom(s, RunEndNot(s, 1, Range(LowerLetters) \cup Digits)))

\* _host_to_name
HostToName(host) ==
  Strip(SubNonLowerAlnum(StripHostSuffix(StripHostPrefix(Lower(host)))), "-")

\* url of an entry: the text urlparse splits into the entry's scheme, netloc,
\* path and query
QueryString(query) ==
  Join([i \in DOMAIN query |-> query[i][1] \o <<"=">> \o query[i][2]], <<"&">>)

UrlOf(entry) ==
  (IF entry.scheme # <<>> THEN entry.scheme \o <<":">> ELSE <<>>)
  \o (IF entry.netloc # <<>> THEN Chars("//") \o entry.netloc ELSE <<>>)
  \o entry.path
  \o (IF entry.query # <<>> THEN <<"?">> \o QueryString(entry.query) ELSE <<>>)

\* the set hosts that _extract_service_name collects
ServiceHosts(trace) ==
  {trace[i].netloc : i \in {j \in DOMAIN trace :
      /\ UrlOf(trace[j]) # <<>>
      /\ ~ IsStaticResource(trace[j].path)
      /\ trace[j].netloc # <<>>}}

\* The names _extract_service_name can return.  hosts is a set of str: the
\* order in which `for host in hosts` and list(hosts)[0] visit it follows the
\* hashes of the strings, which differ from one interpreter run to the next
ServiceNames(trace) ==
  LET hosts    == ServiceHosts(trace)
      apiHosts == {h \in hosts : Contains(Lower(h), Chars("api"))}
  IN IF hosts = {} THEN {Chars("unknown")}
     ELSE IF apiHosts # {} THEN {HostToName(h) : h \in apiHosts}
     ELSE {HostToName(h) : h \in hosts}

\* the values of list(base_urls)[0] if base_urls else ''
PrimaryBaseUrls(urls) == IF urls = {} THEN {<<>>} ELSE urls

\* ------------------------------------------------------------------------
\* Endpoint Aggregator: the loop of HARParser.parse
\* ------------------------------------------------------------------------

\* f"{parsed.scheme}://{parsed.netloc}"
BaseUrlOf(entry) == entry.scheme \o Chars("://") \o entry.netloc

\* endpoint_key
EndpointKey(method, base_url, normalized_path) ==
  method \o <<":">> \o base_url \o normalized_path

\* content_type = normalized_headers.get('Content-Type', 'application/json')
ContentTypeOf(normalized_headers) ==
  IF DictHas(normalized_headers, Chars("Content-Type"))
    THEN DictGet(normalized_headers, Chars("Content-Type"))
    ELSE Chars("application/json")

\* the APIEndpoint built from an entry
EndpointOf(entry) ==
  LET np == ExtractPathParams(entry.path)
      normalized_headers == NormalizeHeaders(entry.headers, <<>>)
  IN [method           |-> entry.method,
      path             |-> np.path,
      base_url         |-> BaseUrlOf(entry),
      full_url         |-> UrlOf(entry),
      query_params     |-> ExtractQueryParams(entry.query),
      path_params      |-> np.params,
      headers          |-> normalized_headers,
      request_body     |-> ExtractRequestBody(entry.postData),
      response_example |-> ExtractResponseExample(entry.response.content),
      response_status  |-> entry.response.status,
      content_type     |-> ContentTypeOf(normalized_headers)]

\* a merge that takes the parameters of the later observation
MergeQueryParamsLastWins(existing, query_params) ==
  IF query_params = <<>> THEN existing
  ELSE [existing EXCEPT !.query_params = query_params]

\* the merge of a later observation: the query parameters whose name the
\* existing endpoint does not have are appended to it
RECURSIVE MergeQueryParams(_, _)
MergeQueryParams(existing, query_params) ==
  IF query_params = <<>> THEN existing
  ELSE LET param == Head(query_params)
           existing_param_names ==
             {existing.query_params[i].name : i \in DOMAIN existing.query_params}
       IN MergeQueryParams(
            IF param.name \notin existing_param_names
              THEN [existing EXCEPT !.query_params = Append(@, param)]
              ELSE existing,
            Tail(query_params))

\* the statement with the later observation replacing the one on record
AggregateLastWins(map, endpoint_key, endpoint) ==
  IF DictHas(map, endpoint_key)
    THEN DictSet(map, endpoint_key, endpoint)
    ELSE Append(map, <<endpoint_key, endpoint>>)

\* the statement `if endpoint_key in endpoints_map: ... else: ...`
Aggregate(map, endpoint_key, endpoint) ==
  IF DictHas(map, endpoint_key)
    THEN DictSet(map, endpoint_key,
                 MergeQueryParams(DictGet(map, endpoint_key), endpoint.query_params))
    ELSE Append(map, <<endpoint_key, endpoint>>)

\* an entry passes the two `continue` tests of the loop
IsRelevant(entry) ==
  /\ ~ IsStaticResource(entry.path)
  /\ IsApiCall(entry.path, entry.headers)

\* the pass after the loop that removes duplicate auth patterns
RECURSIVE UniqueAuth(_, _)
UniqueAuth(patterns, unique_auth) ==
  IF patterns = <<>> THEN unique_auth
  ELSE LET pattern == Head(patterns)
           key     == pattern.auth_type \o <<":">> \o pattern.header_name
       IN UniqueAuth(Tail(patterns),
            IF ~ DictHas(unique_auth, key)
              THEN Append(unique_auth, <<key, pattern>>)
              ELSE unique_auth)

DictValues(d) == [i \in DOMAIN d |-> d[i][2]]

\* ------------------------------------------------------------------------
\* Code Generator: MCPGenerator
\* ------------------------------------------------------------------------

\* self.server_name
ServerName(service) == Chars("iblai-") \o service.name

\* service_info.name.upper().replace('-', '_').replace('.', '_')
EnvPrefix(service) ==
  ReplaceAll(ReplaceAll(Upper(service.name), <<"-">>, <<"_">>), <<".">>, <<"_">>)

\* _env_var_name
EnvVarName(service, suffix) == EnvPrefix(service) \o <<"_">> \o suffix

\* _python_safe_name
PythonSafeName(name) ==
  LET safe == [i \in 1..Len(name) |-> IF name[i] \in WordChars THEN name[i] ELSE "_"]
  IN Lower(IF safe # <<>> /\ safe[1] \in Digits THEN <<"_">> \o safe ELSE safe)

\* bool(value) of a JSON value
Truthy(value) ==
  CASE value.t = "null" -> FALSE
    [] value.t \in {"obj", "list"} -> value.items # <<>>
    [] value.t = "str" -> value.v # <<>> \/ value.items # <<>>
    [] value.t = "bool" -> value.v = Chars("true")
    [] OTHER -> value.v \notin {Chars("0"), Chars("0.0")}

\* the type _generate_param_schema gives a property: the isinstance chain on
\* the example value, str, int, float, bool in this order (a bool is an int)
PropType(example_value) ==
  CASE example_value.t = "str" -> Chars("string")
    [] example_value.t \in {"int", "bool"} -> Chars("integer")
    [] example_value.t = "float" -> Chars("number")
    [] OTHER -> Chars("string")

\* param.description or f"Parameter: {param.name}"
PropDescription(param) ==
  IF param.description # <<>> THEN param.description
  ELSE Chars("Parameter: ") \o param.name

\* _generate_param_schema
ParamSchema(params) ==
  IF params = <<>> THEN JObj(<<>>)
  ELSE LET properties ==
             DictFrom([i \in DOMAIN params |->
                        <<params[i].name,
                          JObj(<<<<Chars("type"), JStr(PropType(params[i].example_value))>>,
                                 <<Chars("description"), JStr(PropDescription(params[i]))>>>>)>>],
                      <<>>)
           required ==
             SelectSeq([i \in DOMAIN params |-> params[i]], LAMBDA q : q.required)
       IN JObj(<<<<Chars("type"), JStr(Chars("object"))>>,
                 <<Chars("properties"), JObj(properties)>>>>
               \o (IF required # <<>>
                     THEN <<<<Chars("required"),
                              JList([i \in DOMAIN required |-> JStr(required[i].name)])>>>>
                     ELSE <<>>))

\* infer_schema of _generate_body_schema
RECURSIVE InferSchema(_)
InferSchema(value) ==
  CASE value.t = "obj" ->
         JObj(<<<<Chars("type"), JStr(Chars("object"))>>,
                <<Chars("properties"),
                  JObj([i \in DOMAIN value.items |->
                         <<value.items[i][1], InferSchema(value.items[i][2])>>])>>>>)
    [] value.t = "list" ->
         JObj(<<<<Chars("type"), JStr(Chars("array"))>>,
                <<Chars("items"),
                  IF value.items # <<>> THEN InferSchema(value.items[1][2])
                  ELSE JObj(<<>>)>>>>)
    [] value.t = "bool" -> JObj(<<<<Chars("type"), JStr(Chars("boolean"))>>>>)
    [] value.t = "int" -> JObj(<<<<Chars("type"), JStr(Chars("integer"))>>>>)
    [] value.t = "float" -> JObj(<<<<Chars("type"), JStr(Chars("number"))>>>>)
    [] OTHER -> JObj(<<<<Chars("type"), JStr(Chars("string"))>>>>)

\* _generate_body_schema
BodySchema(body) == IF ~ Truthy(body) THEN JObj(<<>>) ELSE InferSchema(body)

\* dict.get(key) of a JSON object, None when the key is missing
JGet(obj, key) == IF DictHas(obj.items, key) THEN DictGet(obj.items, key) ELSE JNull

\* the schema of an endpoint: the parameters' schema, and the `body` property
\* when the endpoint has a request body whose schema has properties
ToolSchema(endpoint) ==
  LET schema      == ParamSchema(endpoint.path_params \o endpoint.query_params)
      body_schema == BodySchema(endpoint.request_body)
  IN IF Truthy(endpoint.request_body) /\ Truthy(JGet(body_schema, Chars("properties")))
       THEN LET withProps ==
                  IF DictHas(schema.items, Chars("properties")) THEN schema
                  ELSE JObj(DictSet(schema.items, Chars("properties"), JObj(<<>>)))
                body ==
                  JObj(<<<<Chars("type"), JStr(Chars("object"))>>,
                         <<Chars("description"), JStr(Chars("Request body"))>>,
                         <<Chars("properties"), JGet(body_schema, Chars("properties"))>>>>)
            IN JObj(DictSet(withProps.items, Chars("properties"),
                      JObj(DictSet(JGet(withProps, Chars("properties")).items,
                                   Chars("body"), body))))
       ELSE schema

ParamNames(params) == [i \in DOMAIN params |-> params[i].name]

\* one types.Tool(...) of _generate_tools_list_items
ToolsListItem(endpoint) ==
  LET schema == ToolSchema(endpoint)
  IN [name        |-> ToolName(endpoint.method, endpoint.path),
      description |-> endpoint.method \o <<" ">> \o endpoint.path,
      inputSchema |-> IF ~ Truthy(schema)
                        THEN JObj(<<<<Chars("type"), JStr(Chars("object"))>>,
                                    <<Chars("properties"), JObj(<<>>)>>>>)
                        ELSE schema]

\* a tool that replays the request headers of the observation
ToolCodeWithHeaders(endpoint) ==
  [safe_name    |-> PythonSafeName(ToolName(endpoint.method, endpoint.path)),
   description  |-> endpoint.method \o <<" ">> \o endpoint.path,
   method       |-> endpoint.method,
   path         |-> endpoint.path,
   path_params  |-> ParamNames(endpoint.path_params),
   query_params |-> ParamNames(endpoint.query_params),
   headers      |-> endpoint.headers]

\* the text _generate_tool_code returns, by what it interpolates
ToolCode(endpoint) ==
  LET desc_parts ==
        <<endpoint.method \o <<" ">> \o endpoint.path>>
        \o (IF endpoint.query_params # <<>>
              THEN <<Chars("Query params: ")
                     \o Join(ParamNames(endpoint.query_params), Chars(", "))>>
              ELSE <<>>)
        \o (IF endpoint.path_params # <<>>
              THEN <<Chars("Path params: ")
                     \o Join(ParamNames(endpoint.path_params), Chars(", "))>>
              ELSE <<>>)
  IN [safe_name    |-> PythonSafeName(ToolName(endpoint.method, endpoint.path)),
      description  |-> Join(desc_parts, Chars(" | ")),
      method       |-> endpoint.method,
      path         |-> endpoint.path,
      path_params  |-> ParamNames(endpoint.path_params),
      query_params |-> ParamNames(endpoint.query_params)]

\* the content of server.py, by what the template interpolates
ServerPy(service, timestamp) ==
  [server_name  |-> ServerName(service),
   name         |-> service.name,
   base_url     |-> service.base_url,
   generated_on |-> timestamp,
   base_url_var |-> EnvVarName(service, Chars("BASE_URL")),
   tools        |-> [i \in DOMAIN service.endpoints |-> ToolsListItem(service.endpoints[i])],
   tools_code   |-> [i \in DOMAIN service.endpoints |-> ToolCode(service.endpoints[i])]]

InitPy(service) == [server_name |-> ServerName(service)]

AuthPy(service) ==
  [server_name |-> ServerName(service), env_prefix |-> EnvPrefix(service)]

ClientPy(service) == [server_name |-> ServerName(service)]

\* self.server_name.replace('-', '_')
PackageName(service) == ReplaceAll(ServerName(service), <<"-">>, <<"_">>)

PyprojectToml(service) ==
  [server_name |-> ServerName(service),
   name        |-> service.name,
   package     |-> PackageName(service)]

\* the lines one discovered auth pattern adds: to the table of the README
\* (table = TRUE) or to .env.example
AuthLines(service, auth, table) ==
  LET env_prefix == EnvPrefix(service)
      line(var, text) == env_prefix \o Chars(var) \o <<"=">> \o text
  IN IF auth.auth_type = Chars("bearer")
       THEN <<line("_AUTH_TYPE", Chars("bearer")),
              line("_BEARER_TOKEN", Chars("your_token_here"))>>
     ELSE IF auth.auth_type = Chars("api_key")
       THEN <<line("_AUTH_TYPE", Chars("api_key")),
              line("_API_KEY", Chars("your_api_key_here"))>>
            \o (IF auth.header_name # <<>> /\ auth.header_name # Chars("X-API-Key")
                  THEN <<line("_API_KEY_HEADER", auth.header_name)>>
                  ELSE <<>>)
     ELSE IF auth.auth_type = Chars("custom_header")
       THEN <<line("_AUTH_TYPE", Chars("custom_header")),
              line("_CUSTOM_HEADER_NAME", auth.header_name),
              line("_CUSTOM_HEADER_VALUE",
                   IF table THEN Chars("Header value") ELSE Chars("your_value_here"))>>
     ELSE <<>>

\* the lines of .env.example
EnvExample(service) ==
  LET auth_patterns == service.auth_patterns
  IN <<Chars("# ") \o ServerName(service) \o Chars(" Configuration"),
       Chars("# Copy this file to .env and update with your values"),
       <<>>,
       Chars("# Base URL (optional, defaults to discovered URL)"),
       Chars("# ") \o EnvPrefix(service) \o Chars("_BASE_URL=") \o service.base_url>>
     \o (IF auth_patterns = <<>>
           THEN <<<<>>,
                  Chars("# No authentication was detected in the API calls."),
                  Chars("# This API appears to be public.")>>
           ELSE Concat([i \in DOMAIN auth_patterns |->
                          <<<<>>>> \o AuthLines(service, auth_patterns[i], FALSE)]))
     \o <<<<>>>>

\* the content of README.md, by what the template interpolates
ReadmeMd(service) ==
  [server_name |-> ServerName(service),
   name        |-> service.name,
   base_url    |-> service.base_url,
   no_auth     |-> service.auth_patterns = <<>>,
   auth_table  |-> Concat([i \in DOMAIN service.auth_patterns |->
                     AuthLines(service, service.auth_patterns[i], TRUE)]),
   auth_example |->
     IF service.auth_patterns = <<>> THEN <<>>
     ELSE AuthLines(service, service.auth_patterns[1], FALSE),
   tools_docs  |-> [i \in DOMAIN service.endpoints |->
     LET endpoint == service.endpoints[i]
         params   == endpoint.path_params \o endpoint.query_params
     IN [tool_name |-> ToolName(endpoint.method, endpoint.path),
         method    |-> endpoint.method,
         path      |-> endpoint.path,
         params    |-> [k \in DOMAIN params |->
                         [name |-> params[k].name,
                          description |-> params[k].description,
                          required |-> params[k].required]]]]]

\* ------------------------------------------------------------------------
\* The file system generate() writes to
\* ------------------------------------------------------------------------

\* the output directory handed to MCPGenerator; it exists
OutputDir == Chars("out")

\* os.path.join
PathJoin(dir, name) == dir \o <<"/">> \o name

\* A file system is [dirs, files, error]: the directories, the dict of the
\* files as <<path, content>>, and whether a call has raised (a call that
\* raises ends generate(), so nothing after it acts)

\* os.makedirs(dir, exist_ok=True): FileExistsError when a regular file has the
\* path
MakeDirs(sys, dir) ==
  IF sys.error THEN sys
  ELSE IF DictHas(sys.files, dir) THEN [sys EXCEPT !.error = TRUE]
  ELSE [sys EXCEPT !.dirs = @ \cup {dir}]

\* _write_file: open(filepath, 'w') raises when the directory is missing
WriteFile(sys, dir, filename, content) ==
  IF sys.error THEN sys
  ELSE IF dir \notin sys.dirs THEN [sys EXCEPT !.error = TRUE]
  ELSE [sys EXCEPT !.files = DictSet(@, PathJoin(dir, filename), content)]

\* if os.path.exists(src): os.rename(src, dst)
MoveFile(sys, src, dst) ==
  IF sys.error \/ ~ DictHas(sys.files, src) THEN sys
  ELSE LET content == DictGet(sys.files, src)
           rest    == SelectSeq(sys.files, LAMBDA f : f[1] # src /\ f[1] # dst)
       IN [sys EXCEPT !.files = Append(rest, <<dst, content>>)]

PythonFiles == <<Chars("server.py"), Chars("__init__.py"), Chars("auth.py"), Chars("client.py")>>

RECURSIVE MoveFiles(_, _, _, _)
MoveFiles(sys, names, from, to) ==
  IF names = <<>> THEN sys
  ELSE MoveFiles(MoveFile(sys, PathJoin(from, Head(names)), PathJoin(to, Head(names))),
                 Tail(names), from, to)

\* server_dir of generate()
ServerDir(service) == PathJoin(OutputDir, ServerName(service))

\* package_dir of _generate_pyproject_toml
PackageDir(service) == PathJoin(ServerDir(service), PackageName(service))

\* _generate_pyproject_toml: the package directory is made, the Python files
\* written so far are moved into it, and pyproject.toml is written
GeneratePyproject(sys, service) ==
  LET made  == MakeDirs(sys, PackageDir(service))
      moved == MoveFiles(made, PythonFiles, ServerDir(service), PackageDir(service))
  IN WriteFile(moved, ServerDir(service), Chars("pyproject.toml"), PyprojectToml(service))

\* generate() without its os.makedirs(server_dir)
MakeServerDirOmitted(sys, service) == sys

\* os.makedirs(server_dir, exist_ok=True) of generate()
MakeServerDir(sys, service) == MakeDirs(sys, ServerDir(service))

\* MCPGenerator.generate(): the file system it leaves
GenerateFiles(sys, service, timestamp) ==
  LET server_dir == ServerDir(service)
      s0 == MakeServerDir(sys, service)
      s1 == WriteFile(s0, server_dir, Chars("server.py"), ServerPy(service, timestamp))
      s2 == WriteFile(s1, server_dir, Chars("__init__.py"), InitPy(service))
      s3 == WriteFile(s2, server_dir, Chars("auth.py"), AuthPy(service))
      s4 == WriteFile(s3, server_dir, Chars("client.py"), ClientPy(service))
      s5 == GeneratePyproject(s4, service)
      s6 == WriteFile(s5, server_dir, Chars("README.md"), ReadmeMd(service))
  IN WriteFile(s6, server_dir, Chars(".env.example"), EnvExample(service))

\* the values datetime.now().isoformat() takes in the model
Timestamps == {Chars("T1"), Chars("T2")}

\* ------------------------------------------------------------------------
\* The generated auth module: the AuthManager of auth.py
\* ------------------------------------------------------------------------

None == JNull

\* the values of the enum AuthType
AuthTypeValues ==
  {Chars("none"), Chars("api_key"), Chars("bearer"), Chars("basic"),
   Chars("custom_header"), Chars("oauth2_client_credentials")}

\* AuthType(auth_type_str), AuthType.NONE on ValueError
AuthTypeOf(auth_type_str) ==
  IF auth_type_str \in AuthTypeValues THEN auth_type_str ELSE Chars("none")

\* os.getenv(name, default) on an environment kept as a dict of str
GetEnv(env, name, default) ==
  IF DictHas(env, name) THEN StrValue(DictGet(env, name)) ELSE default

\* _load_from_env: the AuthConfig
LoadFromEnv(env_prefix, env) ==
  LET var(suffix) == env_prefix \o Chars(suffix)
  IN [auth_type            |-> AuthTypeOf(Lower(GetEnv(env, var("_AUTH_TYPE"),
                                                       StrValue(Chars("none"))).v)),
      api_key              |-> GetEnv(env, var("_API_KEY"), None),
      api_key_header       |-> GetEnv(env, var("_API_KEY_HEADER"),
                                      StrValue(Chars("X-API-Key"))),
      bearer_token         |-> GetEnv(env, var("_BEARER_TOKEN"), None),
      basic_username       |-> GetEnv(env, var("_BASIC_USERNAME"), None),
      basic_password       |-> GetEnv(env, var("_BASIC_PASSWORD"), None),
      custom_header_name   |-> GetEnv(env, var("_CUSTOM_HEADER_NAME"), None),
      custom_header_value  |-> GetEnv(env, var("_CUSTOM_HEADER_VALUE"), None),
      oauth2_client_id     |-> GetEnv(env, var("_OAUTH2_CLIENT_ID"), None),
      oauth2_client_secret |-> GetEnv(env, var("_OAUTH2_CLIENT_SECRET"), None),
      oauth2_token_url     |-> GetEnv(env, var("_OAUTH2_TOKEN_URL"), None),
      oauth2_scope         |-> GetEnv(env, var("_OAUTH2_SCOPE"), None)]

\* AuthManager.__init__ without a config
AuthManager(env_prefix, env) ==
  [config       |-> LoadFromEnv(env_prefix, env),
   oauth2_token |-> None,
   token_expiry |-> 0]

\* the code of an ASCII character of a credential
Ord(c) ==
  CASE c \in Range(UpperLetters) -> 64 + (CHOOSE i \in DOMAIN UpperLetters : UpperLetters[i] = c)
    [] c \in Range(LowerLetters) -> 96 + (CHOOSE i \in DOMAIN LowerLetters : LowerLetters[i] = c)
    [] c \in Digits -> 47 + (CHOOSE i \in DOMAIN DigitSeq : DigitSeq[i] = c)
    [] c = "-" -> 45
    [] c = "." -> 46
    [] c = "/" -> 47
    [] c = ":" -> 58
    [] c = "_" -> 95

Base64Alphabet == UpperLetters \o LowerLetters \o DigitSeq \o <<"+", "/">>

\* base64.b64encode on the bytes of an ASCII str
RECURSIVE B64Encode(_)
B64Encode(bytes) ==
  LET digit(n) == Base64Alphabet[n + 1]
  IN IF bytes = <<>> THEN <<>>
     ELSE IF Len(bytes) = 1
       THEN <<digit(bytes[1] \div 4), digit((bytes[1] % 4) * 16), "=", "=">>
     ELSE IF Len(bytes) = 2
       THEN <<digit(bytes[1] \div 4),
              digit((bytes[1] % 4) * 16 + bytes[2] \div 16),
              digit((bytes[2] % 16) * 4), "=">>
     ELSE <<digit(bytes[1] \div 4),
            digit((bytes[1] % 4) * 16 + bytes[2] \div 16),
            digit((bytes[2] % 16) * 4 + bytes[3] \div 64),
            digit(bytes[3] % 64)>>
          \o B64Encode(SubSeq(bytes, 4, Len(bytes)))

\* base64.b64encode(credentials.encode()).decode()
Base64(cs) == B64Encode([i \in DOMAIN cs |-> Ord(cs[i])])

\* int(str) of a run of digits
RECURSIVE IntOf(_)
IntOf(cs) ==
  IF cs = <<>> THEN 0
  ELSE 10 * IntOf(SubSeq(cs, 1, Len(cs) - 1))
       + (CHOOSE d \in 0..9 : DigitSeq[d + 1] = cs[Len(cs)])

\* the seconds before the expiry at which a cached token is fetched again
ExpiryMargin == 60

\* the default of expires_in
DefaultExpiresIn == 3600

\* a _get_oauth2_token that uses the cached token until the very expiry
GetOAuth2TokenUntilExpiry(manager, now, response) ==
  LET config == manager.config
  IN IF Truthy(manager.oauth2_token) /\ now < manager.token_expiry
       THEN [token |-> manager.oauth2_token, manager |-> manager, fetched |-> FALSE]
     ELSE IF ~ (Truthy(config.oauth2_client_id) /\ Truthy(config.oauth2_client_secret)
                  /\ Truthy(config.oauth2_token_url))
       THEN [token |-> None, manager |-> manager, fetched |-> FALSE]
     ELSE IF ~ response.ok \/ response.token_data.t # "obj"
       THEN [token |-> None, manager |-> manager, fetched |-> TRUE]
     ELSE LET token_data   == response.token_data
              access_token == JGet(token_data, Chars("access_token"))
              expires_in   == IF DictHas(token_data.items, Chars("expires_in"))
                                THEN DictGet(token_data.items, Chars("expires_in"))
                                ELSE JInt(DecStr(DefaultExpiresIn))
              assigned     == [manager EXCEPT !.oauth2_token = access_token]
          IN IF expires_in.t = "int"
               THEN [token   |-> access_token,
                     manager |-> [assigned EXCEPT !.token_expiry = now + IntOf(expires_in.v)],
                     fetched |-> TRUE]
               ELSE [token |-> None, manager |-> assigned, fetched |-> TRUE]

\* a _get_oauth2_token that forgets the cached token when the fetch fails
GetOAuth2TokenForgetful(manager, now, response) ==
  LET config == manager.config
      forgotten == [manager EXCEPT !.oauth2_token = None, !.token_expiry = 0]
  IN IF Truthy(manager.oauth2_token) /\ now < manager.token_expiry - ExpiryMargin
       THEN [token |-> manager.oauth2_token, manager |-> manager, fetched |-> FALSE]
     ELSE IF ~ (Truthy(config.oauth2_client_id) /\ Truthy(config.oauth2_client_secret)
                  /\ Truthy(config.oauth2_token_url))
       THEN [token |-> None, manager |-> manager, fetched |-> FALSE]
     ELSE IF ~ response.ok \/ response.token_data.t # "obj"
       THEN [token |-> None, manager |-> forgotten, fetched |-> TRUE]
     ELSE LET token_data   == response.token_data
              access_token == JGet(token_data, Chars("access_token"))
              expires_in   == IF DictHas(token_data.items, Chars("expires_in"))
                                THEN DictGet(token_data.items, Chars("expires_in"))
                                ELSE JInt(DecStr(DefaultExpiresIn))
              assigned     == [manager EXCEPT !.oauth2_token = access_token]
          IN IF expires_in.t = "int"
               THEN [token   |-> access_token,
                     manager |-> [assigned EXCEPT !.token_expiry = now + IntOf(expires_in.v)],
                     fetched |-> TRUE]
               ELSE [token |-> None, manager |-> assigned, fetched |-> TRUE]

\* What the token endpoint answers a post: [ok, token_data], ok FALSE for a
\* transport error or a status raise_for_status() raises on, token_data the
\* JSON value of the body otherwise.
\*
\* _get_oauth2_token at the time now, when a post would be answered by
\* response: [token, manager, fetched], the token returned, the manager
\* after the call and whether a post was made
GetOAuth2Token(manager, now, response) ==
  LET config == manager.config
  IN IF Truthy(manager.oauth2_token) /\ now < manager.token_expiry - ExpiryMargin
       THEN [token |-> manager.oauth2_token, manager |-> manager, fetched |-> FALSE]
     ELSE IF ~ (Truthy(config.oauth2_client_id) /\ Truthy(config.oauth2_client_secret)
                  /\ Truthy(config.oauth2_token_url))
       THEN [token |-> None, manager |-> manager, fetched |-> FALSE]
     ELSE IF ~ response.ok \/ response.token_data.t # "obj"
       THEN [token |-> None, manager |-> manager, fetched |-> TRUE]
     ELSE LET token_data   == response.token_data
              access_token == JGet(token_data, Chars("access_token"))
              expires_in   == IF DictHas(token_data.items, Chars("expires_in"))
                                THEN DictGet(token_data.items, Chars("expires_in"))
                                ELSE JInt(DecStr(DefaultExpiresIn))
              assigned     == [manager EXCEPT !.oauth2_token = access_token]
          IN IF expires_in.t = "int"
               THEN [token   |-> access_token,
                     manager |-> [assigned EXCEPT !.token_expiry = now + IntOf(expires_in.v)],
                     fetched |-> TRUE]
               \* time.time() + expires_in raises TypeError after the token
               \* has been assigned
               ELSE [token |-> None, manager |-> assigned, fetched |-> TRUE]

\* a get_auth_headers that sends the API key whatever scheme is selected
GetAuthHeadersAnyScheme(manager, now, response) ==
  [headers |-> IF Truthy(manager.config.api_key)
                 THEN <<<<manager.config.api_key_header.v, manager.config.api_key.v>>>>
                 ELSE <<>>,
   manager |-> manager,
   fetched |-> FALSE]

\* get_auth_headers at the time now: [headers, manager, fetched], the dict
\* returned, the manager after the call and whether a token was fetched
GetAuthHeaders(manager, now, response) ==
  LET config == manager.config
      static(headers) == [headers |-> headers, manager |-> manager, fetched |-> FALSE]
  IN CASE config.auth_type = Chars("none") -> static(<<>>)
       [] config.auth_type = Chars("api_key") ->
            static(IF Truthy(config.api_key)
                     THEN <<<<config.api_key_header.v, config.api_key.v>>>>
                     ELSE <<>>)
       [] config.auth_type = Chars("bearer") ->
            static(IF Truthy(config.bearer_token)
                     THEN <<<<Chars("Authorization"),
                              Chars("Bearer ") \o config.bearer_token.v>>>>
                     ELSE <<>>)
       [] config.auth_type = Chars("basic") ->
            static(IF Truthy(config.basic_username) /\ Truthy(config.basic_password)
                     THEN LET credentials == config.basic_username.v \o <<":">>
                                               \o config.basic_password.v
                          IN <<<<Chars("Authorization"),
                                 Chars("Basic ") \o Base64(credentials)>>>>
                     ELSE <<>>)
       [] config.auth_type = Chars("custom_header") ->
            static(IF Truthy(config.custom_header_name) /\ Truthy(config.custom_header_value)
                     THEN <<<<config.custom_header_name.v, config.custom_header_value.v>>>>
                     ELSE <<>>)
       [] config.auth_type = Chars("oauth2_client_credentials") ->
            LET got == GetOAuth2Token(manager, now, response)
            IN [headers |-> IF Truthy(got.token)
                              THEN <<<<Chars("Authorization"),
                                       Chars("Bearer ") \o got.token.v>>>>
                              ELSE <<>>,
                manager |-> got.manager,
                fetched |-> got.fetched]
       [] OTHER -> static(<<>>)

\* ------------------------------------------------------------------------
\* The state machine: parse() entry by entry, its return, generate()
\* ------------------------------------------------------------------------

VARIABLES
  entries,            \* self.entries, the records of the trace
  idx,                \* the number of entries the loop of parse() has consumed
  endpoints_map,      \* the dict endpoint_key -> APIEndpoint, as <<key, endpoint>>
  all_auth_patterns,  \* the list of the patterns of the relevant entries
  base_urls,          \* the set of the base URLs of the relevant entries
  pc,                 \* "parse", "parsed" (parse() has returned), "generated"
  service,            \* the ServiceInfo parse() returns
  fs,                 \* the file system
  cli,                \* the run of cli.py: its arguments, the file, the exit status
  rt                  \* a process that imports the generated auth module

vars == <<entries, idx, endpoints_map, all_auth_patterns, base_urls, pc, service, fs,
          cli, rt>>

ServiceInfo(name, base_url, auth_patterns, endpoints) ==
  [name          |-> name,
   base_url      |-> base_url,
   description   |-> Chars("API service for ") \o name,
   auth_patterns |-> auth_patterns,
   endpoints     |-> endpoints]

NoService ==
  [name |-> <<>>, base_url |-> <<>>, description |-> <<>>,
   auth_patterns |-> <<>>, endpoints |-> <<>>]

EmptyFs == [dirs |-> {OutputDir}, files |-> <<>>, error |-> FALSE]

\* no command of cli.py runs: parse() and generate() are called directly
NoCli ==
  [command |-> "none", file |-> [kind |-> "none", data |-> JNull, entries |-> <<>>],
   name |-> <<>>, exit |-> -1, traceback |-> FALSE]

\* the generated auth module has not been imported
NoRuntime ==
  [phase |-> "none", env |-> <<>>, manager |-> AuthManager(<<>>, <<>>), now |-> 0,
   headers |-> <<>>, fetched |-> FALSE, response |-> [ok |-> FALSE, token_data |-> JNull],
   calls |-> 0]

\* the state when parse() enters its loop over the trace
InitOn(trace) ==
  /\ entries = trace
  /\ idx = 0
  /\ endpoints_map = <<>>
  /\ all_auth_patterns = <<>>
  /\ base_urls = {}
  /\ pc = "parse"
  /\ service = NoService
  /\ fs = EmptyFs
  /\ cli = NoCli
  /\ rt = NoRuntime

\* the body of the loop on one entry: the locals endpoints_map,
\* all_auth_patterns and base_urls after it
LoopBody(locals, entry) ==
  IF IsStaticResource(entry.path) THEN locals
  ELSE IF ~ IsApiCall(entry.path, entry.headers) THEN locals
  ELSE LET endpoint     == EndpointOf(entry)
           endpoint_key == EndpointKey(entry.method, endpoint.base_url, endpoint.path)
       IN [base_urls         |-> locals.base_urls \cup {endpoint.base_url},
           all_auth_patterns |->
             locals.all_auth_patterns \o ExtractAuthPatterns(entry.headers),
           endpoints_map     |->
             Aggregate(locals.endpoints_map, endpoint_key, endpoint)]

\* one iteration of `for entry in self.entries`
ParseEntry ==
  /\ pc = "parse"
  /\ idx < Len(entries)
  /\ LET after == LoopBody([base_urls         |-> base_urls,
                            all_auth_patterns |-> all_auth_patterns,
                            endpoints_map     |-> endpoints_map],
                           entries[idx + 1])
     IN /\ base_urls' = after.base_urls
        /\ all_auth_patterns' = after.all_auth_patterns
        /\ endpoints_map' = after.endpoints_map
  /\ idx' = idx + 1
  /\ UNCHANGED <<entries, pc, service, fs, cli, rt>>

\* the end of parse(): the auth patterns are deduplicated, the service name
\* and the primary base URL are chosen, the ServiceInfo is returned
ParseReturn ==
  /\ pc = "parse"
  /\ idx = Len(entries)
  /\ \E service_name \in ServiceNames(entries) :
       \E primary_base_url \in PrimaryBaseUrls(base_urls) :
         service' = ServiceInfo(service_name, primary_base_url,
                                DictValues(UniqueAuth(all_auth_patterns, <<>>)),
                                DictValues(endpoints_map))
  /\ pc' = "parsed"
  /\ UNCHANGED <<entries, idx, endpoints_map, all_auth_patterns, base_urls, fs, cli, rt>>

\* generate_mcp_server(service_info, output_dir)
Generate ==
  /\ pc = "parsed"
  /\ \E timestamp \in Timestamps : fs' = GenerateFiles(fs, service, timestamp)
  /\ pc' = "generated"
  /\ UNCHANGED <<entries, idx, endpoints_map, all_auth_patterns, base_urls, service,
                 cli, rt>>

Next == ParseEntry \/ ParseReturn \/ Generate

\* the most calls of get_auth_headers() a process makes in the model
MaxCalls == 2

\* the values time.time() takes in the model
Times == {0, 50, 60, 100}

\* the tokens the token endpoint issues
IssuedTokens == {Chars("tokA"), Chars("tokB")}

\* what the token endpoint answers: a failure, a token that expires in 120
\* seconds, a token without expires_in, a token with an expires_in that is
\* not a number, an object without a token, a body that is not an object
TokenResponses ==
  {[ok |-> FALSE, token_data |-> JNull],
   [ok |-> TRUE, token_data |-> JObj(<<<<Chars("access_token"), JStr(Chars("tokA"))>>,
                                       <<Chars("expires_in"), JInt(Chars("120"))>>>>)],
   [ok |-> TRUE, token_data |-> JObj(<<<<Chars("access_token"), JStr(Chars("tokB"))>>>>)],
   [ok |-> TRUE, token_data |-> JObj(<<<<Chars("access_token"), JStr(Chars("tokB"))>>,
                                       <<Chars("expires_in"), JStr(Chars("soon"))>>>>)],
   [ok |-> TRUE, token_data |-> JObj(<<>>)],
   [ok |-> TRUE, token_data |-> JList(<<>>)]}

\* the credential variables of the environment, by suffix, with the value
\* each has when it is set
CredentialVars ==
  <<<<"_API_KEY", "k3y">>, <<"_API_KEY_HEADER", "X-Key">>, <<"_BEARER_TOKEN", "t0k">>,
    <<"_BASIC_USERNAME", "user">>, <<"_BASIC_PASSWORD", "pass9">>,
    <<"_CUSTOM_HEADER_NAME", "X-Custom">>, <<"_CUSTOM_HEADER_VALUE", "v4l">>,
    <<"_OAUTH2_CLIENT_ID", "cid">>, <<"_OAUTH2_CLIENT_SECRET", "s3c">>,
    <<"_OAUTH2_TOKEN_URL", "https://idp.example.com/token">>,
    <<"_OAUTH2_SCOPE", "read">>>>

\* which of them are set: none, all, all but one, those of one scheme
Selections ==
  {{}, DOMAIN CredentialVars}
  \cup {DOMAIN CredentialVars \ {k} : k \in DOMAIN CredentialVars}
  \cup {{1}, {1, 2}, {3}, {4, 5}, {6, 7}, {8, 9, 10}, {8, 9, 10, 11}}

\* the settings of AUTH_TYPE: unset, or set to a value
AuthTypeSettings ==
  {<<>>}
  \cup {<<Chars(v)>> : v \in {"none", "api_key", "bearer", "Bearer", "basic", "custom_header",
                              "oauth2_client_credentials", "OAUTH2_CLIENT_CREDENTIALS",
                              "cookie", "token", ""}}

\* the environment with AUTH_TYPE set so and the selected credential
\* variables set, the API key to the empty str when empty_key
EnvOf(env_prefix, auth_type, selection, empty_key) ==
  LET chosen == SelectSeq([k \in DOMAIN CredentialVars |->
                             <<k, env_prefix \o Chars(CredentialVars[k][1]),
                               IF k = 1 /\ empty_key THEN <<>>
                               ELSE Chars(CredentialVars[k][2])>>],
                          LAMBDA v : v[1] \in selection)
  IN (IF auth_type = <<>> THEN <<>>
      ELSE <<<<env_prefix \o Chars("_AUTH_TYPE"), auth_type[1]>>>>)
     \o [k \in DOMAIN chosen |-> <<chosen[k][2], chosen[k][3]>>]

\* the environments of the processes of the model
Environments(env_prefix) ==
  {EnvOf(env_prefix, auth_type, selection, FALSE) :
     auth_type \in AuthTypeSettings, selection \in Selections}
  \cup {EnvOf(env_prefix, auth_type, DOMAIN CredentialVars, TRUE) :
          auth_type \in AuthTypeSettings}

\* the auth.py generate() wrote
GeneratedAuthPy == DictGet(fs.files, PathJoin(PackageDir(service), Chars("auth.py")))

\* a process imports the generated package: its AuthManager is made from the
\* environment
AuthManagerInit ==
  /\ pc = "generated"
  /\ ~ fs.error
  /\ rt.phase = "none"
  /\ \E env \in Environments(GeneratedAuthPy.env_prefix) :
       rt' = [NoRuntime EXCEPT !.phase = "ready", !.env = env,
                               !.manager = AuthManager(GeneratedAuthPy.env_prefix, env)]
  /\ UNCHANGED <<entries, idx, endpoints_map, all_auth_patterns, base_urls, pc, service,
                 fs, cli>>

\* a call of get_auth_headers(), at a time not before that of the last call;
\* rt.response keeps the answer of the token endpoint when the call fetched
GetAuthHeadersCall ==
  /\ rt.phase = "ready"
  /\ rt.calls < MaxCalls
  /\ \E now \in {t \in Times : t >= rt.now} :
       \E response \in TokenResponses :
         LET got == GetAuthHeaders(rt.manager, now, response)
         IN rt' = [rt EXCEPT !.manager = got.manager, !.now = now,
                             !.headers = got.headers, !.fetched = got.fetched,
                             !.response = IF got.fetched THEN response
                                          ELSE NoRuntime.response,
                             !.calls = @ + 1]
  /\ UNCHANGED <<entries, idx, endpoints_map, all_auth_patterns, base_urls, pc, service,
                 fs, cli>>

\* parse(), generate(), then a process that runs the generated auth module
NextRuntime == ParseEntry \/ ParseReturn \/ Generate \/ AuthManagerInit \/ GetAuthHeadersCall

\* ------------------------------------------------------------------------
\* Traces
\* ------------------------------------------------------------------------

\* the longest trace of the specifications that draw traces of several records
MaxTrace == 2

\* the traces of at most n records of a pool
Traces(pool, n) == UNION {[1..k -> pool] : k \in 0..n}

NoText == [kind |-> "none", data |-> JNull]

JsonText(data) == [kind |-> "json", data |-> data]

NoPostData == [mimeType |-> <<>>, text |-> NoText, params |-> <<>>]

NoContent == [mimeType |-> <<>>, text |-> NoText]

JsonContent(data) == [mimeType |-> Chars("application/json"), text |-> JsonText(data)]

Header(name, value) == [name |-> Chars(name), value |-> value]

\* the path with these segments
PathOf(segments) == Concat([i \in DOMAIN segments |-> <<"/">> \o Chars(segments[i])])

\* a record of the trace; the url is kept as urlparse splits it, the query as
\* the sequence of its <<name, value>> pairs;
\* the response declares the mime type of its content in its Content-Type header
Entry(method, netloc, path, query, headers, postData, content) ==
  [method   |-> Chars(method),
   scheme   |-> Chars("https"),
   netloc   |-> Chars(netloc),
   path     |-> path,
   query    |-> [i \in DOMAIN query |-> <<Chars(query[i][1]), Chars(query[i][2])>>],
   headers  |-> headers,
   postData |-> postData,
   response |-> [status  |-> 200,
                 headers |-> IF content.mimeType = <<>> THEN <<>>
                             ELSE <<Header("Content-Type", content.mimeType)>>,
                 content |-> content]]

\* a GET of a path with neither headers nor bodies
Get(netloc, segments, query) ==
  Entry("GET", netloc, PathOf(segments), query, <<>>, NoPostData, NoContent)

AcceptJson == Header("Accept", Chars("application/json, text/plain"))

BearerS1 == Header("Authorization", Chars("Bearer s3cr3tA"))

\* The pool of the specification Spec: observations of /api/items with
\* different query strings, of /api/items/<n>, static assets and page loads
\* (some with JSON headers, API path segments and credentials)
MainPool ==
  {Get("shop.example.com", <<"api", "items">>, <<<<"page", "1">>>>),
   Get("shop.example.com", <<"api", "items">>, <<<<"search", "foo">>, <<"page", "2">>>>),
   Get("shop.example.com", <<"api", "items">>,
       <<<<"_t", "9">>, <<"limit", "5">>, <<"callback", "cb">>>>),
   Get("shop.example.com", <<"api", "items">>, <<<<"page", "">>, <<"page", "7">>, <<"sort", "">>>>),
   Get("shop.example.com", <<"api", "items", "12">>, <<<<"page", "3">>>>),
   Get("shop.example.com", <<"api", "items", "77">>, <<<<"search", "x">>, <<"jsonp", "f">>>>),
   Entry("GET", "shop.example.com", PathOf(<<"api", "items">>), <<>>,
         <<BearerS1>>, NoPostData, JsonContent(JObj(<<>>))),
   Entry("GET", "shop.example.com", PathOf(<<"api", "logo.png">>), <<<<"page", "4">>>>,
         <<AcceptJson, BearerS1>>, NoPostData, JsonContent(JObj(<<>>))),
   Entry("GET", "cdn.example.com", PathOf(<<"static", "api", "app">>), <<>>,
         <<Header("Content-Type", Chars("application/json")),
           Header("X-API-Key", Chars("s3cr3tB"))>>, NoPostData, NoContent),
   Entry("GET", "shop.example.com", PathOf(<<"v1", "bundle.JS">>), <<<<"v", "3">>>>,
         <<Header("Cookie", Chars("session=s3cr3tA"))>>, NoPostData, NoContent),
   Entry("GET", "shop.example.com", PathOf(<<"home">>), <<<<"page", "5">>>>,
         <<>>, NoPostData, JsonContent(JObj(<<>>))),
   Entry("GET", "www.example.com", PathOf(<<"index.html">>), <<>>,
         <<Header("Accept", Chars("text/html")), BearerS1>>, NoPostData,
         JsonContent(JObj(<<>>)))}

Init == \E trace \in Traces(MainPool, MaxTrace) : InitOn(trace)

Spec == Init /\ [][Next]_vars

\* ------------------------------------------------------------------------
\* The specifications of the other pools of records
\* ------------------------------------------------------------------------

\* The pool of the specification SpecPaths: observations of the courses (with
\* and without a trailing slash), of the modules of a course and of one
\* module, on two hosts and with two methods, the course and the module
\* numbered with one, two and four digits
PathsPool ==
  {Get("lms.example.com", <<"api", "courses", "12", "modules">>, <<>>),
   Get("lms.example.com", <<"api", "courses", "77", "modules">>, <<>>),
   Get("lms.example.com", <<"api", "courses", "1234", "modules">>, <<>>),
   Get("lms.example.com", <<"api", "courses", "12", "modules", "3">>, <<>>),
   Get("lms.example.com", <<"api", "courses", "12", "modules", "4">>, <<>>),
   Get("lms.example.com", <<"api", "courses", "1234", "modules", "3">>, <<>>),
   Get("lms.example.com", <<"api", "courses", "1234", "modules", "4">>, <<>>),
   Get("lms.example.com", <<"api", "courses">>, <<>>),
   Get("lms.example.com", <<"api", "courses", "">>, <<>>),
   Get("files.example.com", <<"api", "courses", "12", "modules">>, <<>>),
   Get("files.example.com", <<"api", "courses">>, <<>>),
   Entry("POST", "lms.example.com", PathOf(<<"api", "courses", "12", "modules">>), <<>>,
         <<>>, NoPostData, NoContent),
   Get("lms.example.com", <<"static", "courses", "12", "modules">>, <<>>)}

InitPaths == \E trace \in Traces(PathsPool, MaxTrace) : InitOn(trace)

SpecPaths == InitPaths /\ [][Next]_vars

\* a GET of /api/me of the application host with these headers
Me(headers) ==
  Entry("GET", "app.example.com", PathOf(<<"api", "me">>), <<>>, headers,
        NoPostData, NoContent)

\* The pool of the specification SpecAuth: one request with the credentials
\* s3cr3tA and s3cr3tB in the recognized headers, written in several cases,
\* with bearer and other values, in cookies, beside headers that are not
\* recognized, and on records that are not relevant
AuthPool ==
  {Me(<<>>),
   Me(<<BearerS1>>),
   Me(<<Header("Authorization", Chars("Bearer s3cr3tB"))>>),
   Me(<<Header("authorization", Chars("bearer s3cr3tA"))>>),
   Me(<<Header("X-API-Key", Chars("s3cr3tA"))>>),
   Me(<<Header("Api-Key", Chars("BEARER s3cr3tB"))>>),
   Me(<<Header("Authorization", Chars("Basic s3cr3tA")),
        Header("X-Custom", Chars("s3cr3tB")),
        Header("X-Auth-Token", Chars("s3cr3tB"))>>),
   Me(<<Header("x-access-token", Chars("s3cr3tA")),
        Header("Cookie", Chars("session=s3cr3tA"))>>),
   Me(<<Header("Cookie", Chars("sid=jwtA; theme=dark"))>>),
   Me(<<Header("Authorization", Chars("Bearer")),
        Header("AUTHORIZATION", Chars("Bearer s3cr3tB"))>>),
   Entry("GET", "app.example.com", PathOf(<<"me">>), <<>>,
         <<AcceptJson, Header("Cookie", Chars("theme=dark"))>>, NoPostData, NoContent),
   Entry("GET", "app.example.com", PathOf(<<"api", "logo.png">>), <<>>,
         <<BearerS1>>, NoPostData, NoContent),
   Entry("GET", "app.example.com", PathOf(<<"home">>), <<>>,
         <<Header("X-API-Key", Chars("s3cr3tA"))>>, NoPostData, NoContent)}

InitAuth == \E trace \in Traces(AuthPool, MaxTrace) : InitOn(trace)

SpecAuth == InitAuth /\ [][Next]_vars

\* the most keys of a response body of the specification SpecBody
MaxWidth == 12

\* the most objects nested in one another in such a body
MaxNest == 5

\* `levels` objects nested in one another, the innermost holding a number
RECURSIVE NestedObj(_)
NestedObj(levels) ==
  IF levels = 0 THEN JInt(Chars("7"))
  ELSE JObj(<<<<Chars("a"), NestedObj(levels - 1)>>>>)

\* an object of n keys k1..kn whose first and last keys hold objects, so that
\* `levels` objects are nested, and whose second key holds a list of three
Body(n, levels) ==
  JObj([i \in 1..n |->
         <<Chars("k") \o DecStr(i),
           IF i \in {1, n} THEN NestedObj(levels - 1)
           ELSE IF i = 2 THEN JList(<<JInt(Chars("1")), JInt(Chars("2")), JInt(Chars("3"))>>)
           ELSE JInt(DecStr(i))>>])

\* a GET of /api/report with this response content
Report(content) ==
  Entry("GET", "data.example.com", PathOf(<<"api", "report">>), <<>>, <<>>,
        NoPostData, content)

\* The pool of the specification SpecBody: the report with object bodies of
\* up to MaxWidth keys and MaxNest nested objects, with a list body, with a
\* list body of three such objects, with an object body whose key holds a
\* list of such an object and of a list of three, with a JSON text under
\* another mime type, and with no body
BodyPool ==
  {Report(JsonContent(Body(n, levels))) : n \in 0..MaxWidth, levels \in 1..MaxNest}
  \cup {Report(JsonContent(JList(<<JInt(Chars("1")), JInt(Chars("2")), JInt(Chars("3"))>>))),
        Report(JsonContent(JList(<<Body(MaxWidth, MaxNest), Body(1, 1), Body(2, 2)>>))),
        Report(JsonContent(JObj(<<<<Chars("items"),
                                    JList(<<Body(MaxWidth, MaxNest),
                                            JList(<<JInt(Chars("1")), JInt(Chars("2")),
                                                    JInt(Chars("3"))>>)>>)>>>>))),
        Report([mimeType |-> Chars("text/html"), text |-> JsonText(Body(1, 1))]),
        Report(NoContent)}

InitBody == \E entry \in BodyPool : InitOn(<<entry>>)

SpecBody == InitBody /\ [][Next]_vars

\* the methods of the specification SpecNames: those of the verb table, two
\* others, and two written in other cases
NameMethods == {"GET", "POST", "PUT", "PATCH", "DELETE", "HEAD", "OPTIONS", "post", "Delete"}

\* its paths, by their segments: with numeric segments (one, two and three,
\* of one to four digits), a trailing slash,
\* punctuation, upper case, underscores, an empty segment, UUID segments (one
\* with a numeric segment, one twice, two different ones), and the paths /
\* and the empty path
NamePaths ==
  {<<"api", "v1", "courses", "12", "modules">>,
   <<"api", "12", "envelope", "">>,
   <<"api", "1", "b", "2">>,
   <<"api", "1234", "b", "56">>,
   <<"api", "123", "45", "6">>,
   <<"api", "user-profiles", "v2.1", "items">>,
   <<"api", "__x__", "">>,
   <<"API", "", "Users">>,
   <<"api", "a%20b">>,
   <<"api", "users", "3f2a9c1e-0b7d-4e5f-8a61-9c2d4e6f8a01", "posts", "12">>,
   <<"api", "3F2A9C1E-0B7D-4E5F-8A61-9C2D4E6F8A01", "copy",
     "3F2A9C1E-0B7D-4E5F-8A61-9C2D4E6F8A01">>,
   <<"api", "3f2a9c1e-0b7d-4e5f-8a61-9c2d4e6f8a01", "to",
     "7b1d2c3e-4f50-4a6b-9c7d-8e9f0a1b2c3d">>,
   <<"_api_">>,
   <<"">>,
   <<>>}

\* The pool of the specification SpecNames: every method on every path, each
\* request accepting JSON
NamesPool ==
  {Entry(method, "api.example.com", PathOf(segments), <<>>, <<AcceptJson>>,
         NoPostData, NoContent) : method \in NameMethods, segments \in NamePaths}

InitNames == \E entry \in NamesPool : InitOn(<<entry>>)

SpecNames == InitNames /\ [][Next]_vars

\* The specification SpecRuntime: the package is generated for one request
\* with a bearer credential, then imported under every environment of the
\* model
InitRuntime == InitOn(<<Me(<<BearerS1>>)>>)

SpecRuntime == InitRuntime /\ [][NextRuntime]_vars

\* the most parameters of the endpoint of the specification SpecSchema
MaxParams == 2

\* The pool of the specification SpecSchema: query parameters whose example
\* is a str, an int, a float, a bool, None or a list, each required or not
SchemaParams ==
  {RequestParam(Chars("p_") \o Chars(example.t), "query", example, required, <<>>) :
     example \in {JStr(Chars("x")), JInt(Chars("7")), JFloat(Chars("1.5")),
                  JBool(Chars("true")), JNull, JList(<<>>)},
     required \in BOOLEAN}

\* the ServiceInfo of one endpoint with these query parameters
SchemaService(params) ==
  ServiceInfo(Chars("shop-example"), Chars("https://shop.example.com"), <<>>,
              <<[EndpointOf(Get("shop.example.com", <<"api", "items">>, <<>>))
                   EXCEPT !.query_params = params]>>)

\* The specification SpecSchema: generate_mcp_server on a ServiceInfo built by
\* its caller
InitSchema ==
  /\ entries = <<>>
  /\ idx = 0
  /\ endpoints_map = <<>>
  /\ all_auth_patterns = <<>>
  /\ base_urls = {}
  /\ pc = "parsed"
  /\ \E params \in Traces(SchemaParams, MaxParams) : service = SchemaService(params)
  /\ fs = EmptyFs
  /\ cli = NoCli
  /\ rt = NoRuntime

NextSchema == Generate

SpecSchema == InitSchema /\ [][NextSchema]_vars

\* ------------------------------------------------------------------------
\* The commands of cli.py: analyze and create
\* ------------------------------------------------------------------------

\* The file a command is given is [kind, data, entries]: "missing" when no
\* file has the path, "text" when its content is not JSON, "json" for the
\* JSON value data, "har" for a HAR file whose entries are the records
\* entries

\* the record of an entry that is the empty object: every get() gives its
\* default
EmptyEntry ==
  [method   |-> Chars("GET"),
   scheme   |-> <<>>,
   netloc   |-> <<>>,
   path     |-> <<>>,
   query    |-> <<>>,
   headers  |-> <<>>,
   postData |-> NoPostData,
   response |-> [status |-> 200, headers |-> <<>>, content |-> NoContent]]

\* load() and the loop head of parse() on a JSON value: the exception raised
\* ("" for none) and the records the loop visits.
\* har_data.get('log', {}).get('entries', []) needs dicts; `for entry in` needs
\* an iterable (a dict gives its keys, a str its characters); entry.get needs
\* a dict.  The objects among the entries of the JSON values of the model are
\* empty.
LoadJson(data) ==
  LET log     == IF DictHas(data.items, Chars("log"))
                   THEN DictGet(data.items, Chars("log")) ELSE JObj(<<>>)
      listed  == IF DictHas(log.items, Chars("entries"))
                   THEN DictGet(log.items, Chars("entries")) ELSE JList(<<>>)
      visited == CASE listed.t = "list" -> [i \in DOMAIN listed.items |-> listed.items[i][2]]
                   [] listed.t = "obj" -> [i \in DOMAIN listed.items |-> JStr(listed.items[i][1])]
                   [] OTHER -> [i \in DOMAIN listed.v |-> JStr(<<listed.v[i]>>)]
  IN IF data.t # "obj" \/ log.t # "obj"
       THEN [raised |-> "AttributeError", entries |-> <<>>]
     ELSE IF listed.t \notin {"list", "obj", "str"}
       THEN [raised |-> "TypeError", entries |-> <<>>]
     ELSE IF \E i \in DOMAIN visited : visited[i].t # "obj"
       THEN [raised |-> "AttributeError", entries |-> <<>>]
     ELSE [raised |-> "", entries |-> [i \in DOMAIN visited |-> EmptyEntry]]

\* a load that takes a missing file for an empty trace
LoadHarMissingAsEmpty(file) ==
  CASE file.kind = "text" -> [raised |-> "JSONDecodeError", entries |-> <<>>]
    [] file.kind = "json" -> LoadJson(file.data)
    [] OTHER -> [raised |-> "", entries |-> file.entries]

\* open() and json.load() of load(), then the loop head of parse()
LoadHar(file) ==
  CASE file.kind = "missing" -> [raised |-> "FileNotFoundError", entries |-> <<>>]
    [] file.kind = "text" -> [raised |-> "JSONDecodeError", entries |-> <<>>]
    [] file.kind = "json" -> LoadJson(file.data)
    [] OTHER -> [raised |-> "", entries |-> file.entries]

\* the exceptions analyze_command and create_command catch around
\* parse_har_file
CaughtOnLoad == {"FileNotFoundError", "JSONDecodeError"}

\* parse_har_file(args.har_file) up to the loop of parse(): an exception the
\* command catches makes it return 1, any other exception ends the process
\* with a traceback and the exit status 1
CliLoad ==
  /\ pc = "start"
  /\ LET loaded == LoadHar(cli.file)
     IN IF loaded.raised = ""
          THEN /\ entries' = loaded.entries
               /\ pc' = "parse"
               /\ cli' = cli
          ELSE /\ entries' = entries
               /\ pc' = "exit"
               /\ cli' = [cli EXCEPT !.exit = 1,
                                     !.traceback = loaded.raised \notin CaughtOnLoad]
  /\ UNCHANGED <<idx, endpoints_map, all_auth_patterns, base_urls, service, fs, rt>>

\* analyze_command after parse_har_file has returned: it prints the
\* ServiceInfo and returns 0
CliAnalyze ==
  /\ pc = "parsed"
  /\ cli.command = "analyze"
  /\ pc' = "exit"
  /\ cli' = [cli EXCEPT !.exit = 0]
  /\ UNCHANGED <<entries, idx, endpoints_map, all_auth_patterns, base_urls, service, fs, rt>>

\* the name create_command gives the service: args.name without a leading
\* iblai- when --name is given
NameOverride(name, given) ==
  IF given = <<>> THEN name
  ELSE IF StartsWith(given, Chars("iblai-")) THEN SliceFrom(given, 6)
  ELSE given

\* create_command after parse_har_file has returned: the name is overridden,
\* generate_mcp_server runs, and an exception it raises makes the command
\* return 1
CliCreate ==
  /\ pc = "parsed"
  /\ cli.command = "create"
  /\ service' = [service EXCEPT !.name = NameOverride(@, cli.name)]
  /\ \E timestamp \in Timestamps : fs' = GenerateFiles(fs, service', timestamp)
  /\ pc' = "exit"
  /\ cli' = [cli EXCEPT !.exit = IF fs'.error THEN 1 ELSE 0]
  /\ UNCHANGED <<entries, idx, endpoints_map, all_auth_patterns, base_urls, rt>>

\* a run of a command
NextCli == CliLoad \/ ParseEntry \/ ParseReturn \/ CliAnalyze \/ CliCreate

\* the JSON values of the files of the model that are not HAR files
JsonFiles ==
  LET log(value) == JObj(<<<<Chars("log"), value>>>>)
      entriesOf(value) == log(JObj(<<<<Chars("entries"), value>>>>))
  IN {JList(<<>>), JObj(<<>>), JStr(Chars("x")), JNull,
      log(JList(<<>>)), log(JObj(<<>>)),
      entriesOf(JNull), entriesOf(JList(<<JInt(Chars("1"))>>)), entriesOf(JList(<<JObj(<<>>)>>)),
      entriesOf(JObj(<<>>)), entriesOf(JStr(Chars("ab")))}

\* the records of the HAR files of the model
CliPool ==
  {Get("shop.example.com", <<"api", "items">>, <<<<"page", "1">>>>),
   Get("shop.example.com", <<"api", "items", "12">>, <<>>),
   Get("shop.example.com", <<"home">>, <<>>),
   Me(<<BearerS1>>)}

HarFile(kind, data, records) == [kind |-> kind, data |-> data, entries |-> records]

\* the files of the model
CliFiles ==
  {HarFile("missing", JNull, <<>>), HarFile("text", JNull, <<>>)}
  \cup {HarFile("json", data, <<>>) : data \in JsonFiles}
  \cup {HarFile("har", JNull, trace) : trace \in Traces(CliPool, MaxTrace)}

\* the output directory before the run: empty, or with a regular file where
\* the package of the service named blocked would go
BlockedFs ==
  [EmptyFs EXCEPT !.files = <<<<PathJoin(OutputDir, Chars("iblai-blocked")), <<>>>>>>]

\* The specification SpecCli: a command of cli.py on a file, create with or
\* without --name
InitCli ==
  /\ entries = <<>>
  /\ idx = 0
  /\ endpoints_map = <<>>
  /\ all_auth_patterns = <<>>
  /\ base_urls = {}
  /\ pc = "start"
  /\ service = NoService
  /\ fs \in {EmptyFs, BlockedFs}
  /\ \E command \in {"analyze", "create"}, file \in CliFiles,
        name \in {<<>>, Chars("blocked"), Chars("iblai-blocked")} :
       /\ command = "analyze" => name = <<>>
       /\ cli = [NoCli EXCEPT !.command = command, !.file = file, !.name = name]
  /\ rt = NoRuntime

SpecCli == InitCli /\ [][NextCli]_vars

\* ------------------------------------------------------------------------
\* What the properties below speak of
\* ------------------------------------------------------------------------

\* s split at every occurrence of the character c
RECURSIVE SplitOn(_, _)
SplitOn(s, c) ==
  IF c \notin Range(s) THEN <<s>>
  ELSE LET k == CHOOSE i \in DOMAIN s : s[i] = c /\ \A j \in 1..(i - 1) : s[j] # c
       IN <<SubSeq(s, 1, k - 1)>> \o SplitOn(SliceFrom(s, k), c)

\* the segments of a path: what stands between its slashes
Segments(path) == SplitOn(path, "/")

\* the path is that of a static asset: its last segment ends in a static
\* extension, or one of its directories is a static directory
StaticAssetPath(path) ==
  LET segs == Segments(Lower(path))
      last == segs[Len(segs)]
      dirs == {segs[k] : k \in 2..(Len(segs) - 1)}
  IN \/ \E ext \in STATIC_EXTENSIONS :
          /\ Len(last) >= Len(ext)
          /\ SubSeq(last, Len(last) - Len(ext) + 1, Len(last)) = ext
     \/ dirs \cap {Chars("static"), Chars("assets"), Chars("public")} # {}
     \/ \E k \in 2..(Len(segs) - 1) :
          segs[k] = Chars("_next") /\ StartsWith(segs[k + 1], Chars("static"))

\* the path has one of the directories api, v1, v2
ApiPath(path) ==
  LET segs == Segments(Lower(path))
      dirs == {segs[k] : k \in 2..(Len(segs) - 1)}
  IN dirs \cap {Chars("api"), Chars("v1"), Chars("v2")} # {}

\* a request header of the entry, Accept or Content-Type, declares JSON
JsonRequest(entry) ==
  \E i \in DOMAIN entry.headers :
    /\ Lower(entry.headers[i].name) \in {Chars("accept"), Chars("content-type")}
    /\ Contains(Lower(entry.headers[i].value), Chars("application/json"))

\* the entry is a static asset or fails the API test
NotRelevant(entry) ==
  \/ StaticAssetPath(entry.path)
  \/ ~ (ApiPath(entry.path) \/ JsonRequest(entry))

\* the entry carries a header the Auth Pattern Detector would report
HasCredential(entry) ==
  \E i \in DOMAIN entry.headers :
    Lower(entry.headers[i].name) \in
      {Chars("authorization"), Chars("x-api-key"), Chars("cookie")}

\* the entry the loop of parse() consumed last
LastEntry == entries[idx]

\* ------------------------------------------------------------------------
\* C4
\* ------------------------------------------------------------------------

\* C4: the iteration of parse() that consumes a record whose path is that of a
\* static asset leaves the endpoints and the collected auth patterns as they
\* were, whatever the record's headers and also when its path has an API
\* directory.
C4_StaticNeverContributes ==
  [][(pc = "parse" /\ idx < Len(entries) /\ StaticAssetPath(entries[idx + 1].path))
       => (endpoints_map' = endpoints_map /\ all_auth_patterns' = all_auth_patterns)]_vars

\* a static asset under /api/ that declares JSON and carries a credential has
\* been consumed after a record that made an endpoint
C4_Witness ==
  /\ pc = "parse"
  /\ idx = 2
  /\ StaticAssetPath(LastEntry.path)
  /\ ApiPath(LastEntry.path)
  /\ JsonRequest(LastEntry)
  /\ HasCredential(LastEntry)
  /\ Len(endpoints_map) = 1

\* ------------------------------------------------------------------------
\* C10
\* ------------------------------------------------------------------------

PackageFileNames ==
  {Chars("server.py"), Chars("__init__.py"), Chars("auth.py"), Chars("client.py"),
   Chars("pyproject.toml"), Chars("README.md"), Chars(".env.example")}

\* the names of the files below the directory iblai-<service name> of the
\* output directory
WrittenFileNames ==
  LET root == OutputDir \o Chars("/iblai-") \o service.name \o <<"/">>
  IN {LET segs == Segments(fs.files[i][1]) IN segs[Len(segs)] :
        i \in {j \in DOMAIN fs.files : StartsWith(fs.files[j][1], root)}}

NoRelevantRecord == \A i \in DOMAIN entries : NotRelevant(entries[i])

\* C10: when no record of the trace is relevant, the ServiceInfo parse()
\* returns has no endpoint and no auth pattern, and generate() on it raises
\* nothing and writes the files of the package.
C10_EmptyModelGenerates ==
  NoRelevantRecord =>
    /\ pc \in {"parsed", "generated"} =>
         (service.endpoints = <<>> /\ service.auth_patterns = <<>>)
    /\ pc = "generated" =>
         (~ fs.error /\ WrittenFileNames = PackageFileNames /\ Len(fs.files) = 7)

\* a package was generated from a trace of two records that are not relevant,
\* one of them with a credential
C10_Witness ==
  /\ pc = "generated"
  /\ Len(entries) = 2
  /\ NoRelevantRecord
  /\ \E i \in DOMAIN entries : HasCredential(entries[i])
  /\ ~ fs.error

\* ------------------------------------------------------------------------
\* C3
\* ------------------------------------------------------------------------

\* the key under which parse() aggregates a record
EntryKey(entry) ==
  EndpointKey(entry.method, BaseUrlOf(entry), ExtractPathParams(entry.path).path)

\* the records consumed so far that were observed for the endpoint of a key
ObservationsOf(key) ==
  SelectSeq(SubSeq(entries, 1, idx), LAMBDA e : IsRelevant(e) /\ EntryKey(e) = key)

\* the <<name, value>> pairs of the query strings of records, in order
RECURSIVE QueryPairsOf(_)
QueryPairsOf(obs) ==
  IF obs = <<>> THEN <<>> ELSE Head(obs).query \o QueryPairsOf(Tail(obs))

\* the first pair of every name, in the order of the pairs
RECURSIVE FirstByName(_, _)
FirstByName(pairs, seen) ==
  IF pairs = <<>> THEN <<>>
  ELSE IF Head(pairs)[1] \in seen THEN FirstByName(Tail(pairs), seen)
  ELSE <<Head(pairs)>> \o FirstByName(Tail(pairs), seen \cup {Head(pairs)[1]})

\* a pair the extractor keeps: its value is not blank and its name is neither
\* underscore-prefixed nor one of rsc, callback, jsonp
ExtractedPair(pair) ==
  /\ pair[2] # <<>>
  /\ pair[1] # <<>> => pair[1][1] # "_"
  /\ pair[1] \notin {Chars("rsc"), Chars("callback"), Chars("jsonp")}

\* name and example value of each parameter of a list
NameAndExample(params) ==
  [i \in DOMAIN params |-> <<params[i].name, params[i].example_value>>]

\* the same of pairs
AsNameAndExample(pairs) ==
  [i \in DOMAIN pairs |-> <<pairs[i][1], StrValue(pairs[i][2])>>]

\* every parameter of the list is the one the extractor gives for the first of
\* the observations whose extraction has the name
FromFirstObservation(params, obs) ==
  \A i \in DOMAIN params :
    \E r \in DOMAIN obs :
      /\ \E j \in DOMAIN ExtractQueryParams(obs[r].query) :
           ExtractQueryParams(obs[r].query)[j] = params[i]
      /\ \A q \in 1..(r - 1) :
           \A j \in DOMAIN ExtractQueryParams(obs[q].query) :
             ExtractQueryParams(obs[q].query)[j].name # params[i].name

\* C3 as the specification states it: the query parameters of an endpoint are
\* the names observed in the query strings of its observations, each once, in
\* first-observation order, each with the value and the required flag of its
\* first observation.
C3_UnionOfObservedNames ==
  \A k \in DOMAIN endpoints_map :
    LET params == endpoints_map[k][2].query_params
        obs    == ObservationsOf(endpoints_map[k][1])
    IN /\ NameAndExample(params) = AsNameAndExample(FirstByName(QueryPairsOf(obs), {}))
       /\ \A i \in DOMAIN params : ~ params[i].required

\* C3, amended: the query parameters of an endpoint are the names the extractor
\* keeps (a non-blank value, a name that is neither underscore-prefixed nor
\* rsc, callback, jsonp) of the query strings of its observations, each once,
\* in first-observation order, each being the parameter extracted from the
\* first observation that has it: its first non-blank value as example, not
\* required, located in the query.
C3_UnionOfExtractedNames ==
  \A k \in DOMAIN endpoints_map :
    LET params == endpoints_map[k][2].query_params
        obs    == ObservationsOf(endpoints_map[k][1])
    IN /\ NameAndExample(params) =
            AsNameAndExample(FirstByName(SelectSeq(QueryPairsOf(obs), ExtractedPair), {}))
       /\ FromFirstObservation(params, obs)
       /\ \A i \in DOMAIN params : ~ params[i].required /\ params[i].param_type = "query"
       /\ pc # "parse" => service.endpoints = DictValues(endpoints_map)

\* parse() has returned an endpoint merged of two observations, the second of
\* which repeated a name with another value and brought a new name
C3_Witness ==
  /\ pc = "parsed"
  /\ \E k \in DOMAIN endpoints_map :
       LET params == endpoints_map[k][2].query_params
           obs    == ObservationsOf(endpoints_map[k][1])
       IN /\ Len(obs) = 2
          /\ Len(params) = 2
          /\ \E i, j \in DOMAIN obs[2].query :
               /\ obs[2].query[i][1] = params[1].name
               /\ StrValue(obs[2].query[i][2]) # params[1].example_value
               /\ obs[2].query[j][1] = params[2].name
          /\ \A j \in DOMAIN obs[1].query : obs[1].query[j][1] # params[2].name

\* ------------------------------------------------------------------------
\* C1
\* ------------------------------------------------------------------------

\* C1: after parse(), no two endpoints of the ServiceInfo have the same method
\* and the same normalized path template.
C1_MethodAndPathUnique ==
  pc # "parse" =>
    \A i, j \in DOMAIN service.endpoints :
      (/\ service.endpoints[i].method = service.endpoints[j].method
       /\ service.endpoints[i].path = service.endpoints[j].path) => i = j

\* ------------------------------------------------------------------------
\* C2
\* ------------------------------------------------------------------------

IsNumericSegment(seg) == seg # <<>> /\ Range(seg) \subseteq Digits

IsPlaceholder(seg) == Len(seg) > 2 /\ seg[1] = "{" /\ seg[Len(seg)] = "}"

\* two paths that differ in their segment k alone, numeric in both
DifferInNumericSegment(p, q, k) ==
  LET ps == Segments(p)
      qs == Segments(q)
  IN /\ Len(ps) = Len(qs)
     /\ k \in DOMAIN ps
     /\ IsNumericSegment(ps[k]) /\ IsNumericSegment(qs[k]) /\ ps[k] # qs[k]
     /\ \A n \in DOMAIN ps : n # k => ps[n] = qs[n]

\* the template is the path with its segment k replaced by a placeholder, the
\* first numeric segment by {id}; another numeric segment may be replaced by a
\* placeholder too
TemplateOf(template, p, k) ==
  LET ts == Segments(template)
      ps == Segments(p)
  IN /\ Len(ts) = Len(ps)
     /\ IsPlaceholder(ts[k])
     /\ (\A n \in 1..(k - 1) : ~ IsNumericSegment(ps[n])) => ts[k] = Chars("{id}")
     /\ \A n \in DOMAIN ps :
          n # k => \/ ts[n] = ps[n]
                   \/ IsNumericSegment(ps[n]) /\ IsPlaceholder(ts[n])

\* C2: two relevant records of the same method, scheme and host whose paths
\* differ only in the digits of one numeric segment are aggregated into one
\* endpoint, whose path template is the path with that segment replaced by a
\* placeholder.
C2_NumericSegmentDeduplicated ==
  pc # "parse" =>
    \A i, j \in DOMAIN entries :
      \A k \in DOMAIN Segments(entries[i].path) :
        (/\ IsRelevant(entries[i]) /\ IsRelevant(entries[j])
         /\ entries[i].method = entries[j].method
         /\ BaseUrlOf(entries[i]) = BaseUrlOf(entries[j])
         /\ DifferInNumericSegment(entries[i].path, entries[j].path, k))
        => /\ EntryKey(entries[i]) = EntryKey(entries[j])
           /\ \E n \in DOMAIN service.endpoints :
                /\ service.endpoints[n].method = entries[i].method
                /\ service.endpoints[n].base_url = BaseUrlOf(entries[i])
                /\ TemplateOf(service.endpoints[n].path, entries[i].path, k)
           /\ \A n \in DOMAIN service.endpoints :
                service.endpoints[n].path \in
                    {ExtractPathParams(entries[i].path).path,
                     ExtractPathParams(entries[j].path).path}
                  => TemplateOf(service.endpoints[n].path, entries[i].path, k)

\* ------------------------------------------------------------------------
\* C6
\* ------------------------------------------------------------------------

\* the scheme the recognition table gives a lower-cased header name
RecognizedNames ==
  {Chars("authorization"), Chars("x-api-key"), Chars("api-key"),
   Chars("x-auth-token"), Chars("x-access-token")}

SchemeOf(lname) ==
  CASE lname = Chars("authorization") -> Chars("bearer")
    [] lname \in {Chars("x-api-key"), Chars("api-key")} -> Chars("api_key")
    [] lname \in {Chars("x-auth-token"), Chars("x-access-token")} -> Chars("custom_header")

\* a bearer value: the word bearer in any case, a space, and what follows
IsBearerValue(value) ==
  Len(value) >= 7 /\ Lower(SubSeq(value, 1, 7)) = Chars("bearer ")

\* the patterns the iteration of parse() on a relevant record has added
AddedPatterns ==
  SubSeq(all_auth_patterns', Len(all_auth_patterns) + 1, Len(all_auth_patterns'))

\* C6: of the patterns a relevant record adds, those located in a header are,
\* in the order of the headers, one for every header whose lower-cased name is
\* in the recognition table: its scheme is the table's, its header name the
\* name as written, its example `Bearer <token>` for a bearer value and
\* `<api_key>` for any other; no other header gives a header-located pattern.
C6_TablePatterns ==
  [][(pc = "parse" /\ idx < Len(entries) /\ IsRelevant(entries[idx + 1])) =>
       LET recognized == SelectSeq(entries[idx + 1].headers,
                                   LAMBDA h : Lower(h.name) \in RecognizedNames)
           located    == SelectSeq(AddedPatterns, LAMBDA a : a.location = "header")
       IN /\ Len(located) = Len(recognized)
          /\ \A n \in DOMAIN located :
               /\ located[n].auth_type = SchemeOf(Lower(recognized[n].name))
               /\ located[n].header_name = recognized[n].name
               /\ located[n].example_value =
                    IF IsBearerValue(recognized[n].value)
                      THEN Chars("Bearer <token>") ELSE Chars("<api_key>")
          /\ \A n \in DOMAIN AddedPatterns :
               AddedPatterns[n].location \in {"header", "cookie"}]_vars

\* two records have been consumed, the last of several headers; among the
\* patterns are one of scheme api_key for a bearer value written in upper case
\* and one of scheme bearer for a value that is no bearer value
C6_Witness ==
  /\ pc = "parse"
  /\ idx = 2
  /\ Len(LastEntry.headers) >= 2
  /\ Len(all_auth_patterns) >= 3
  /\ \E i, j \in DOMAIN all_auth_patterns :
       /\ all_auth_patterns[i].auth_type = Chars("api_key")
       /\ all_auth_patterns[i].example_value = Chars("Bearer <token>")
       /\ all_auth_patterns[j].auth_type = Chars("bearer")
       /\ all_auth_patterns[j].example_value = Chars("<api_key>")

\* ------------------------------------------------------------------------
\* C7
\* ------------------------------------------------------------------------

SamePattern(a, b) ==
  a.auth_type = b.auth_type /\ Lower(a.header_name) = Lower(b.header_name)

\* C7: after parse(), no two auth patterns of the ServiceInfo have the same
\* scheme and the same header name, names compared case-insensitively, and
\* each of them is the first pattern of its scheme and name that was observed.
C7_AuthPatternsUnique ==
  pc # "parse" =>
    /\ \A i, j \in DOMAIN service.auth_patterns :
         SamePattern(service.auth_patterns[i], service.auth_patterns[j]) => i = j
    /\ \A i \in DOMAIN service.auth_patterns :
         \E n \in DOMAIN all_auth_patterns :
           /\ all_auth_patterns[n] = service.auth_patterns[i]
           /\ \A m \in 1..(n - 1) :
                ~ SamePattern(all_auth_patterns[m], service.auth_patterns[i])

\* ------------------------------------------------------------------------
\* C5
\* ------------------------------------------------------------------------

\* the locals of parse() after its loop over a trace
RECURSIVE ParseLoop(_, _)
ParseLoop(locals, trace) ==
  IF trace = <<>> THEN locals
  ELSE ParseLoop(LoopBody(locals, Head(trace)), Tail(trace))

\* the ServiceInfo parse() returns for a trace, given the name and the base
\* URL it takes
ServiceOf(trace, name, base_url) ==
  LET locals == ParseLoop([base_urls |-> {}, all_auth_patterns |-> <<>>,
                           endpoints_map |-> <<>>], trace)
  IN ServiceInfo(name, base_url,
                 DictValues(UniqueAuth(locals.all_auth_patterns, <<>>)),
                 DictValues(locals.endpoints_map))

\* a header that carries a credential: its name is in the recognition table,
\* or it is a Cookie header whose value names an auth cookie
CarriesCredential(header) ==
  \/ Lower(header.name) \in RecognizedNames
  \/ /\ Lower(header.name) = Chars("cookie")
     /\ \E word \in {Chars("session"), Chars("auth"), Chars("token"), Chars("jwt")} :
          Contains(Lower(header.value), word)

\* the header with its credential replaced by a fixed one
RedactedHeader(header) ==
  IF Lower(header.name) \in RecognizedNames THEN [header EXCEPT !.value = Chars("x")]
  ELSE IF CarriesCredential(header) THEN [header EXCEPT !.value = Chars("session=x")]
  ELSE header

\* the trace with the credentials of its headers replaced by fixed ones: two
\* traces that differ in their credentials alone have the same redacted trace
Redacted(trace) ==
  [i \in DOMAIN trace |->
     [trace[i] EXCEPT !.headers = [k \in DOMAIN trace[i].headers |->
                                     RedactedHeader(trace[i].headers[k])]]]

\* C5: the files generate() writes are those it writes for the trace with the
\* credentials of the recognized headers replaced by fixed values, whatever
\* the generation timestamp: traces that differ only in these credentials
\* give the same files, and no file holds a credential.
C5_FilesIndependentOfCredentials ==
  pc = "generated" =>
    \E timestamp \in Timestamps :
      fs = GenerateFiles(EmptyFs,
                         ServiceOf(Redacted(entries), service.name, service.base_url),
                         timestamp)

\* files were generated from a trace of two relevant records that differ in
\* the credential of their Authorization header alone, which the endpoint of
\* the ServiceInfo retains in its headers
C5_Witness ==
  /\ pc = "generated"
  /\ Len(entries) = 2
  /\ entries[1] # entries[2]
  /\ Redacted(entries)[1] = Redacted(entries)[2]
  /\ IsBearerValue(entries[1].headers[1].value)
  /\ IsBearerValue(entries[2].headers[1].value)
  /\ Len(service.endpoints) = 1
  /\ service.endpoints[1].headers = <<<<entries[1].headers[1].name, entries[1].headers[1].value>>>>
  /\ Len(fs.files) = 7

\* ------------------------------------------------------------------------
\* C8
\* ------------------------------------------------------------------------

\* the value found in a JSON value along a path of keys, null where a key is
\* missing
RECURSIVE At(_, _)
At(value, path) ==
  IF path = <<>> THEN value
  ELSE IF value.t # "obj" \/ ~ DictHas(value.items, Head(path)) THEN JNull
  ELSE At(DictGet(value.items, Head(path)), Tail(path))

\* the paths of d keys that lead through objects to an object
RECURSIVE ObjPaths(_, _)
ObjPaths(value, d) ==
  IF value.t # "obj" THEN {}
  ELSE IF d = 0 THEN {<<>>}
  ELSE UNION {{<<value.items[i][1]>> \o p : p \in ObjPaths(value.items[i][2], d - 1)} :
                i \in DOMAIN value.items}

\* the first ten keys of an object
FirstTenKeys(obj) == SubSeq(DictKeys(obj.items), 1, Min(Len(obj.items), 10))

\* every key of the path is among the first ten keys of the object it is in
RECURSIVE AmongFirstTen(_, _)
AmongFirstTen(value, path) ==
  \/ path = <<>>
  \/ /\ Head(path) \in Range(FirstTenKeys(value))
     /\ AmongFirstTen(At(value, <<Head(path)>>), Tail(path))

\* the JSON object of the response of the record, when it has one
HasObjectBody(entry) ==
  /\ entry.response.content.text.kind = "json"
  /\ Contains(entry.response.content.mimeType, Chars("json"))
  /\ entry.response.content.text.data.t = "obj"

ResponseBody == entries[1].response.content.text.data

\* C8: the response example stored for an object body has, at every object
\* nested less than 3 deep (reached by keys that are kept), exactly the first
\* min(n, 10) of its n keys, in their order and with their numbers and strings
\* unchanged, so no truncation marker stands at depth 0; every object nested 3
\* deep is replaced by the `truncated` marker.
C8_Truncation ==
  (pc # "parse" /\ Len(entries) = 1 /\ HasObjectBody(entries[1])) =>
    /\ Len(service.endpoints) = 1
    /\ LET stored == service.endpoints[1].response_example
       IN \A d \in 0..3 :
            \A path \in ObjPaths(ResponseBody, d) :
              AmongFirstTen(ResponseBody, path) =>
                IF d = 3 THEN At(stored, path) = JObj(<<<<Chars("..."), JStr(Chars("truncated"))>>>>)
                ELSE /\ At(stored, path).t = "obj"
                     /\ DictKeys(At(stored, path).items) = FirstTenKeys(At(ResponseBody, path))
                     /\ \A key \in Range(FirstTenKeys(At(ResponseBody, path))) :
                          At(ResponseBody, path \o <<key>>).t \notin {"obj", "list"}
                            => At(stored, path \o <<key>>) = At(ResponseBody, path \o <<key>>)

\* parse() has returned the example of a body of twelve keys and five nested
\* objects: it has ten keys, and the marker at depth 3 below its first key
C8_Witness ==
  /\ pc = "parsed"
  /\ Len(entries) = 1
  /\ HasObjectBody(entries[1])
  /\ Len(ResponseBody.items) = 12
  /\ ObjPaths(ResponseBody, 4) # {}
  /\ Len(service.endpoints[1].response_example.items) = 10
  /\ At(service.endpoints[1].response_example, <<Chars("k1"), Chars("a"), Chars("a")>>)
       = TruncatedMarker

\* ------------------------------------------------------------------------
\* C9
\* ------------------------------------------------------------------------

\* the verb of a method, the table being read whatever the case of the method
VerbOf(method) ==
  CASE Upper(method) = Chars("GET") -> Chars("get")
    [] Upper(method) = Chars("POST") -> Chars("create")
    [] Upper(method) = Chars("PUT") -> Chars("update")
    [] Upper(method) = Chars("PATCH") -> Chars("patch")
    [] Upper(method) = Chars("DELETE") -> Chars("delete")
    [] OTHER -> Lower(method)

\* the text with the braces of every placeholder {name} removed
RECURSIVE Unbraced(_)
Unbraced(s) ==
  IF s = <<>> THEN <<>>
  ELSE IF /\ Head(s) = "{"
          /\ \E q \in 2..(Len(s) - 1) :
               s[q + 1] = "}" /\ \A n \in 2..q : s[n] \in WordChars
    THEN LET q == CHOOSE q \in 2..(Len(s) - 1) :
                    s[q + 1] = "}" /\ \A n \in 2..q : s[n] \in WordChars
         IN SubSeq(s, 2, q) \o Unbraced(SubSeq(s, q + 2, Len(s)))
    ELSE <<Head(s)>> \o Unbraced(Tail(s))

\* the maximal runs of letters and digits of a text, in order
RECURSIVE AlnumWords(_, _)
AlnumWords(s, word) ==
  IF s = <<>> THEN (IF word = <<>> THEN <<>> ELSE <<word>>)
  ELSE IF Head(s) \in AlphaNum THEN AlnumWords(Tail(s), Append(word, Head(s)))
  ELSE (IF word = <<>> THEN <<>> ELSE <<word>>) \o AlnumWords(Tail(s), <<>>)

\* the path part of a tool name: the words of the unbraced path, lower-cased
\* and joined by single underscores
PathPart(path) == Lower(Join(AlnumWords(Unbraced(path), <<>>), <<"_">>))

ExpectedToolName(method, path) ==
  IF PathPart(path) = <<>> THEN VerbOf(method)
  ELSE VerbOf(method) \o <<"_">> \o PathPart(path)

\* the content of the generated server.py
GeneratedServerPy == DictGet(fs.files, PathJoin(PackageDir(service), Chars("server.py")))

\* C9: the name of the tool generated for an endpoint is the verb of its
\* method (GET get, POST create, PUT update, PATCH patch, DELETE delete, the
\* table read in any case, any other method lower-cased), then `_` and the
\* path with placeholders unbraced, runs of other characters collapsed to one
\* underscore, no underscore at its edges, lower-cased; the verb alone when
\* that part is empty.  GET /api/v1/courses/{id}/modules gives
\* get_api_v1_courses_id_modules, POST /api/{id}/envelope/ gives
\* create_api_id_envelope.
C9_ToolName ==
  pc = "generated" =>
    \A i \in DOMAIN service.endpoints :
      LET endpoint == service.endpoints[i]
          name     == GeneratedServerPy.tools[i].name
      IN /\ name = ExpectedToolName(endpoint.method, endpoint.path)
         /\ (endpoint.method = Chars("GET")
               /\ endpoint.path = Chars("/api/v1/courses/{id}/modules"))
              => name = Chars("get_api_v1_courses_id_modules")
         /\ (endpoint.method = Chars("POST")
               /\ endpoint.path = Chars("/api/{id}/envelope/"))
              => name = Chars("create_api_id_envelope")
         /\ endpoint.path \in {<<>>, Chars("/")} => name = VerbOf(endpoint.method)

\* the server of POST /api/{id}/envelope/ has been generated
C9_Witness ==
  /\ pc = "generated"
  /\ Len(service.endpoints) = 1
  /\ service.endpoints[1].method = Chars("POST")
  /\ service.endpoints[1].path = Chars("/api/{id}/envelope/")
  /\ GeneratedServerPy.tools[1].name = Chars("create_api_id_envelope")

\* ---------------------------------------------------------------------------
\* C11: determinism of the pipeline

\* the ServiceInfos parse() can return for a trace: one for each order the
\* sets of hosts and of base URLs can be iterated in
ServicesOf(trace) ==
  LET locals == ParseLoop([base_urls |-> {}, all_auth_patterns |-> <<>>,
                           endpoints_map |-> <<>>], trace)
  IN {ServiceOf(trace, name, base_url) :
        name \in ServiceNames(trace), base_url \in PrimaryBaseUrls(locals.base_urls)}

\* C11: the pipeline is a function of its input: the trace alone determines
\* the ServiceInfo parse() returns (name, base URL, authentication patterns
\* and endpoints in order), and the ServiceInfo and the timestamp alone
\* determine the files, also when the relevant records are on several hosts.
C11_Deterministic ==
  pc # "parse" =>
    /\ ServicesOf(entries) = {service}
    /\ pc = "generated" =>
         \E timestamp \in Timestamps :
           \A other \in ServicesOf(entries) :
             fs = GenerateFiles(EmptyFs, other, timestamp)

\* ---------------------------------------------------------------------------
\* C12, C13: the path parameters of an endpoint

\* the names of a list of parameters, in order
NamesOf(params) == [i \in DOMAIN params |-> params[i].name]

\* no name occurs twice in the list
Distinct(names) ==
  \A i, j \in DOMAIN names : names[i] = names[j] => i = j

\* C12: within an endpoint, no two path parameters have the same name and no
\* two query parameters have the same name, also when the path has both a
\* UUID and a numeric segment.
C12_ParamNamesUnique ==
  \A i \in DOMAIN endpoints_map :
    LET endpoint == endpoints_map[i][2]
    IN /\ Distinct(NamesOf(endpoint.path_params))
       /\ Distinct(NamesOf(endpoint.query_params))

\* the names of the placeholders {name} of a text, left to right
RECURSIVE PlaceholderNames(_)
PlaceholderNames(s) ==
  IF s = <<>> THEN <<>>
  ELSE IF /\ Head(s) = "{"
          /\ \E q \in 2..(Len(s) - 1) :
               s[q + 1] = "}" /\ \A n \in 2..q : s[n] \in WordChars
    THEN LET q == CHOOSE q \in 2..(Len(s) - 1) :
                    s[q + 1] = "}" /\ \A n \in 2..q : s[n] \in WordChars
         IN <<SubSeq(s, 2, q)>> \o PlaceholderNames(SubSeq(s, q + 2, Len(s)))
    ELSE PlaceholderNames(Tail(s))

\* C13: the names of the path parameters of an endpoint, in order, are the
\* names of the placeholders of its path template, left to right, also when
\* the path mixes UUID and numeric segments or has the same UUID twice.
C13_ParamsMatchPlaceholders ==
  \A i \in DOMAIN endpoints_map :
    LET endpoint == endpoints_map[i][2]
    IN NamesOf(endpoint.path_params) = PlaceholderNames(endpoint.path)

\* ---------------------------------------------------------------------------
\* C14: the records the classifier accepts

\* the Content-Type header of the response of the entry declares JSON
JsonResponse(entry) ==
  \E i \in DOMAIN entry.response.headers :
    /\ Lower(entry.response.headers[i].name) = Chars("content-type")
    /\ Contains(Lower(entry.response.headers[i].value), Chars("application/json"))

\* C14: the iteration of parse() that consumes a record that is not a static
\* asset treats it as relevant (afterwards its base URL and the endpoint of
\* its key are recorded) if and only if its path has an API directory or a
\* request header Accept or Content-Type declares JSON or the Content-Type
\* header of its response declares JSON; otherwise the iteration changes
\* nothing.
C14_RelevantIff ==
  [][(pc = "parse" /\ idx < Len(entries) /\ ~ StaticAssetPath(entries[idx + 1].path))
       => LET entry == entries[idx + 1]
          IN IF ApiPath(entry.path) \/ JsonRequest(entry) \/ JsonResponse(entry)
               THEN /\ BaseUrlOf(entry) \in base_urls'
                    /\ DictHas(endpoints_map', EntryKey(entry))
               ELSE /\ base_urls' = base_urls
                    /\ endpoints_map' = endpoints_map
                    /\ all_auth_patterns' = all_auth_patterns]_vars

\* ---------------------------------------------------------------------------
\* C15: the headers of the generated auth module

\* the value of a variable of the environment of the process, the empty str
\* when it is not set
Setting(suffix) ==
  LET name == EnvPrefix(service) \o Chars(suffix)
  IN IF DictHas(rt.env, name) THEN DictGet(rt.env, name) ELSE <<>>

\* the scheme AUTH_TYPE selects, read in any case
SelectedScheme ==
  IF DictHas(rt.env, EnvPrefix(service) \o Chars("_AUTH_TYPE"))
    THEN Lower(Setting("_AUTH_TYPE"))
    ELSE Chars("none")

\* the one header of a name and a value, none when a part is missing
OneHeader(name, value, parts) ==
  IF \A k \in DOMAIN parts : parts[k] # <<>> THEN <<<<name, value>>>> ELSE <<>>

\* C15: what get_auth_headers() returned is at most one header, and it is
\* the header of the scheme AUTH_TYPE selects (read in any case), made from
\* the variables of that scheme alone: the API key under the configured header
\* name (X-API-Key by default), `Authorization: Bearer <token>`,
\* `Authorization: Basic <base64 of user:password>`, the custom header, or for
\* oauth2_client_credentials a bearer header of a token the token endpoint
\* issued, none without client id, secret and token URL; no header when a
\* variable of the scheme is missing or empty, and none when AUTH_TYPE is
\* unset, `none` or any other value.
C15_SelectedSchemeOnly ==
  rt.calls > 0 =>
    /\ Len(rt.headers) <= 1
    /\ CASE SelectedScheme = Chars("api_key") ->
              rt.headers =
                OneHeader(IF DictHas(rt.env, EnvPrefix(service) \o Chars("_API_KEY_HEADER"))
                            THEN Setting("_API_KEY_HEADER") ELSE Chars("X-API-Key"),
                          Setting("_API_KEY"), <<Setting("_API_KEY")>>)
         [] SelectedScheme = Chars("bearer") ->
              rt.headers = OneHeader(Chars("Authorization"),
                                     Chars("Bearer ") \o Setting("_BEARER_TOKEN"),
                                     <<Setting("_BEARER_TOKEN")>>)
         [] SelectedScheme = Chars("basic") ->
              /\ rt.headers =
                   OneHeader(Chars("Authorization"),
                             Chars("Basic ") \o Base64(Setting("_BASIC_USERNAME") \o <<":">>
                                                         \o Setting("_BASIC_PASSWORD")),
                             <<Setting("_BASIC_USERNAME"), Setting("_BASIC_PASSWORD")>>)
              /\ (Setting("_BASIC_USERNAME") = Chars("user")
                    /\ Setting("_BASIC_PASSWORD") = Chars("pass9"))
                   => rt.headers = <<<<Chars("Authorization"),
                                       Chars("Basic dXNlcjpwYXNzOQ==")>>>>
         [] SelectedScheme = Chars("custom_header") ->
              rt.headers = OneHeader(Setting("_CUSTOM_HEADER_NAME"),
                                     Setting("_CUSTOM_HEADER_VALUE"),
                                     <<Setting("_CUSTOM_HEADER_NAME"),
                                       Setting("_CUSTOM_HEADER_VALUE")>>)
         [] SelectedScheme = Chars("oauth2_client_credentials") ->
              /\ rt.headers \in
                   {<<>>} \cup {<<<<Chars("Authorization"), Chars("Bearer ") \o token>>>> :
                                  token \in IssuedTokens}
              /\ <<>> \in {Setting("_OAUTH2_CLIENT_ID"), Setting("_OAUTH2_CLIENT_SECRET"),
                           Setting("_OAUTH2_TOKEN_URL")}
                   => rt.headers = <<>>
         [] OTHER -> rt.headers = <<>>

\* get_auth_headers() returned the bearer header in a process whose
\* environment selects bearer and sets the credentials of every scheme
C15_Witness ==
  /\ rt.calls > 0
  /\ SelectedScheme = Chars("bearer")
  /\ Len(rt.env) = Len(CredentialVars) + 1
  /\ Setting("_API_KEY") = Chars("k3y")
  /\ rt.headers = <<<<Chars("Authorization"), Chars("Bearer t0k")>>>>

\* ---------------------------------------------------------------------------
\* C16, C17: the exit status of the commands and the files of a failed run

\* the file of the command is absent or is not JSON
InputError == cli.file.kind \in {"missing", "text"}

\* every file of the package is in the file system
PackageWritten == PackageFileNames \subseteq WrittenFileNames

\* C16: a command that has ended has the exit status 0 or 1; analyze has 1
\* when the file is missing or is not JSON and 0 on every other file; create
\* has 1 when the file is missing or is not JSON or generation failed, and 0
\* when the package was written.
C16_ExitCodes ==
  cli.exit # -1 =>
    /\ cli.exit \in {0, 1}
    /\ cli.command = "analyze" => cli.exit = (IF InputError THEN 1 ELSE 0)
    /\ cli.command = "create" =>
         /\ (InputError \/ fs.error) => cli.exit = 1
         /\ (~ fs.error /\ PackageWritten) => cli.exit = 0

\* C17: a step of a run changes the file system only when parse() has
\* returned the ServiceInfo of the whole trace, and never in a run whose file
\* is absent or is not JSON: such a run of create ends with no directory made
\* and no file written.
C17_NoWriteBeforeParsed ==
  [][/\ InputError => fs' = fs
     /\ fs' # fs => /\ pc = "parsed"
                    /\ idx = Len(entries)
                    /\ service \in ServicesOf(entries)]_vars

\* create has ended with the status 1 on a missing file, the output directory
\* as it was before the run
C17_Witness ==
  /\ cli.command = "create"
  /\ cli.file.kind = "missing"
  /\ cli.exit = 1
  /\ ~ cli.traceback
  /\ fs = EmptyFs

\* ---------------------------------------------------------------------------
\* C18: the environment template

\* the lines of the .env.example generate() wrote
GeneratedEnvExample == DictGet(fs.files, PathJoin(ServerDir(service), Chars(".env.example")))

\* the number of lines before the first empty line
RECURSIVE BlockLen(_)
BlockLen(lines) ==
  IF lines = <<>> \/ Head(lines) = <<>> THEN 0 ELSE 1 + BlockLen(Tail(lines))

\* the blocks of lines, each after the empty line that introduces it
RECURSIVE BlocksOf(_)
BlocksOf(lines) ==
  IF lines = <<>> THEN <<>>
  ELSE LET n == BlockLen(Tail(lines))
       IN <<SubSeq(lines, 2, n + 1)>> \o BlocksOf(SubSeq(lines, n + 2, Len(lines)))

\* a line of the block sets the variable of this suffix
SetsVar(block, suffix) ==
  \E k \in DOMAIN block : StartsWith(block[k], EnvPrefix(service) \o Chars(suffix) \o <<"=">>)

\* C18: the generated .env.example lists <PREFIX>_BASE_URL; when the
\* ServiceInfo has no auth pattern it has the comment that no authentication
\* was detected; otherwise it has one block per auth pattern, in order, that
\* sets <PREFIX>_AUTH_TYPE and the variables of the scheme of the pattern
\* (bearer: BEARER_TOKEN; api_key: API_KEY; custom_header: CUSTOM_HEADER_NAME
\* and CUSTOM_HEADER_VALUE; cookie: at least one variable).
C18_EnvTemplate ==
  (pc = "generated" /\ ~ fs.error) =>
    LET lines    == GeneratedEnvExample
        patterns == service.auth_patterns
        blocks   == BlocksOf(SubSeq(lines, 6, Len(lines) - 1))
    IN /\ \E k \in DOMAIN lines :
            Contains(lines[k], EnvPrefix(service) \o Chars("_BASE_URL="))
       /\ IF patterns = <<>>
            THEN \E k \in DOMAIN lines :
                   lines[k] = Chars("# No authentication was detected in the API calls.")
            ELSE /\ Len(blocks) = Len(patterns)
                 /\ \A k \in DOMAIN patterns :
                      /\ SetsVar(blocks[k], "_AUTH_TYPE")
                      /\ Len(blocks[k]) >= 2
                      /\ patterns[k].auth_type = Chars("bearer")
                           => SetsVar(blocks[k], "_BEARER_TOKEN")
                      /\ patterns[k].auth_type = Chars("api_key")
                           => SetsVar(blocks[k], "_API_KEY")
                      /\ patterns[k].auth_type = Chars("custom_header")
                           => /\ SetsVar(blocks[k], "_CUSTOM_HEADER_NAME")
                              /\ SetsVar(blocks[k], "_CUSTOM_HEADER_VALUE")

\* ---------------------------------------------------------------------------
\* C19: the description of a catalog descriptor

\* the text is `<method> <path>`, then, joined by pipes, the comma-joined
\* names of the query parameters and of the path parameters the endpoint has
DescribesEndpoint(text, endpoint) ==
  /\ StartsWith(text, endpoint.method \o <<" ">> \o endpoint.path)
  /\ \A params \in {endpoint.query_params, endpoint.path_params} :
       params # <<>> =>
         /\ Contains(text, Chars(" | "))
         /\ Contains(text, Join(NamesOf(params), Chars(", ")))
  /\ (endpoint.query_params = <<>> /\ endpoint.path_params = <<>>)
       => text = endpoint.method \o <<" ">> \o endpoint.path

\* C19: in the generated server.py, the description of the types.Tool that
\* list_tools returns for an endpoint is `<method> <path>` followed, when the
\* endpoint has path or query parameters, by their comma-joined names, the
\* parts joined by pipes.
C19_DescriptorDescription ==
  (pc = "generated" /\ ~ fs.error) =>
    \A i \in DOMAIN service.endpoints :
      DescribesEndpoint(GeneratedServerPy.tools[i].description, service.endpoints[i])

\* ---------------------------------------------------------------------------
\* C20: the schema of the parameters

\* the JSON Schema type of an example value
SchemaTypeOf(example) ==
  CASE example.t = "str" -> Chars("string")
    [] example.t = "int" -> Chars("integer")
    [] example.t = "float" -> Chars("number")
    [] example.t = "bool" -> Chars("boolean")
    [] OTHER -> Chars("string")

\* C20: the inputSchema of the descriptor of an endpoint has one property per
\* name of a path or query parameter, of the type of the example value of
\* the parameter (string, integer, number, boolean; string when there is no
\* example or it has another type), and its `required` is the list of the
\* names of the required parameters (absent when there is none).
C20_ParamSchema ==
  (pc = "generated" /\ ~ fs.error) =>
    \A i \in DOMAIN service.endpoints :
      LET endpoint   == service.endpoints[i]
          params     == endpoint.path_params \o endpoint.query_params
          schema     == GeneratedServerPy.tools[i].inputSchema
          properties == JGet(schema, Chars("properties"))
          required   == JGet(schema, Chars("required"))
          needed     == SelectSeq(params, LAMBDA q : q.required)
      IN /\ {properties.items[k][1] : k \in DOMAIN properties.items} \ {Chars("body")}
              = {params[k].name : k \in DOMAIN params}
         /\ \A k \in DOMAIN params :
              (\A n \in DOMAIN params : params[n].name = params[k].name => n <= k)
                => JGet(JGet(properties, params[k].name), Chars("type"))
                     = JStr(SchemaTypeOf(params[k].example_value))
         /\ IF needed = <<>> THEN required = JNull
            ELSE required = JList([k \in DOMAIN needed |-> JStr(needed[k].name)])

\* ---------------------------------------------------------------------------
\* C21: the request body in the schema of the descriptor

\* postData of the mime type application/json with this text
JsonPostData(text) == [mimeType |-> Chars("application/json"), text |-> text, params |-> <<>>]

\* the postData of the specification SpecRequest: a JSON object, the empty
\* object, a list of one object, a text that is not JSON under the JSON mime
\* type, a form of one field, a plain text, and none
RequestBodies ==
  {JsonPostData(JsonText(JObj(<<<<Chars("title"), JStr(Chars("x"))>>,
                               <<Chars("count"), JInt(Chars("2"))>>>>))),
   JsonPostData(JsonText(JObj(<<>>))),
   JsonPostData(JsonText(JList(<<JObj(<<<<Chars("a"), JInt(Chars("1"))>>>>)>>))),
   JsonPostData([kind |-> "text", data |-> JStr(Chars("{title"))]),
   [mimeType |-> Chars("application/x-www-form-urlencoded"),
    text     |-> [kind |-> "text", data |-> JStr(Chars("title=x"))],
    params   |-> <<<<Chars("title"), Chars("x")>>>>],
   [mimeType |-> Chars("text/plain"),
    text     |-> [kind |-> "text", data |-> JStr(Chars("hello"))],
    params   |-> <<>>],
   NoPostData}

\* The pool of the specification SpecRequest: a POST of /api/items or of
\* /api/items/12 with each of these postData, with and without a query string
RequestPool ==
  {Entry("POST", "api.example.com", PathOf(segments), query, <<>>, post_data, NoContent) :
     segments \in {<<"api", "items">>, <<"api", "items", "12">>},
     query \in {<<>>, <<<<"page", "1">>>>},
     post_data \in RequestBodies}

InitRequest == \E entry \in RequestPool : InitOn(<<entry>>)

SpecRequest == InitRequest /\ [][Next]_vars

\* the descriptor's schema is an object schema with a `body` property
HasBodyProperty(schema) ==
  /\ JGet(schema, Chars("type")) = JStr(Chars("object"))
  /\ JGet(schema, Chars("properties")) # None
  /\ JGet(JGet(schema, Chars("properties")), Chars("body")) # None

\* C21: the inputSchema of the descriptor of an endpoint that has an observed
\* request body (an object, the empty object, a list, the raw text) has the
\* type `object` and a property `body`, with or without path and query
\* parameters.
C21_BodyInSchema ==
  (pc = "generated" /\ ~ fs.error) =>
    \A i \in DOMAIN service.endpoints :
      service.endpoints[i].request_body # None
        => HasBodyProperty(GeneratedServerPy.tools[i].inputSchema)

\* ---------------------------------------------------------------------------
\* C22: what a later observation of an endpoint leaves alone

NumericPlaces(path) ==
  {k \in DOMAIN Segments(path) : k > 1 /\ IsNumericSegment(Segments(path)[k])}

\* the name of the numeric segment at place k: id for the first, id_<n> for
\* the one that n others precede
NumericNameAt(path, k) ==
  LET n == Cardinality({m \in NumericPlaces(path) : m < k})
  IN IF n = 0 THEN Chars("id") ELSE Chars("id_") \o DecStr(n)

\* the path with each numeric segment replaced by the placeholder of its name
NumericTemplate(path) ==
  Join([k \in DOMAIN Segments(path) |->
          IF k \in NumericPlaces(path)
            THEN <<"{">> \o NumericNameAt(path, k) \o <<"}">>
            ELSE Segments(path)[k]],
       <<"/">>)

\* the numeric segments of a path, left to right, as <<name, digits>>
RECURSIVE NumericSegmentsFrom(_, _)
NumericSegmentsFrom(path, k) ==
  IF k > Len(Segments(path)) THEN <<>>
  ELSE (IF k \in NumericPlaces(path)
          THEN <<<<NumericNameAt(path, k), Segments(path)[k]>>>>
          ELSE <<>>) \o NumericSegmentsFrom(path, k + 1)

\* no segment of the path is long enough to hold a UUID
NoUuidSegment(path) == \A k \in DOMAIN Segments(path) : Len(Segments(path)[k]) < 36

\* C23: for a consumed relevant record whose path has two or more numeric
\* segments and no UUID segment, the endpoint of the record has as its path
\* the path with the first numeric segment replaced by {id} and the k-th
\* later one by {id_<k>}, everything else unchanged, and one path parameter
\* per numeric segment, named after its placeholder, whose example is the
\* digits of the segment (those of the first record observed for the
\* endpoint).
C23_NumericPlaceholders ==
  \A i \in 1..idx :
    (/\ ~ NotRelevant(entries[i])
     /\ Cardinality(NumericPlaces(entries[i].path)) >= 2
     /\ NoUuidSegment(entries[i].path))
    => \E n \in DOMAIN endpoints_map :
         LET endpoint == endpoints_map[n][2]
         IN /\ endpoint.path = NumericTemplate(entries[i].path)
            /\ \E j \in 1..i :
                 /\ ~ NotRelevant(entries[j])
                 /\ NumericTemplate(entries[j].path) = endpoint.path
                 /\ [k \in DOMAIN endpoint.path_params |->
                       <<endpoint.path_params[k].name,
                         endpoint.path_params[k].example_value>>]
                      = [k \in DOMAIN NumericSegmentsFrom(entries[j].path, 1) |->
                           <<NumericSegmentsFrom(entries[j].path, 1)[k][1],
                             StrValue(NumericSegmentsFrom(entries[j].path, 1)[k][2])>>]

\* ---------------------------------------------------------------------------
\* C24: the bound on the stored response example

\* a JSON value inside `depth` mappings is bounded: a mapping has at most 10
\* keys and is the `truncated` marker when 3 mappings enclose it, a sequence
\* has at most 2 elements, and so for their members
RECURSIVE BoundedExample(_, _)
BoundedExample(value, depth) ==
  CASE value.t = "obj" ->
         /\ Len(value.items) <= 10
         /\ depth >= 3 => value = JObj(<<<<Chars("..."), JStr(Chars("truncated"))>>>>)
         /\ \A i \in DOMAIN value.items : BoundedExample(value.items[i][2], depth + 1)
    [] value.t = "list" ->
         /\ Len(value.items) <= 2
         /\ \A i \in DOMAIN value.items : BoundedExample(value.items[i][2], depth)
    [] OTHER -> TRUE

\* C24: the response example stored for a JSON response body, an object or a
\* list, is bounded: every mapping in it has at most 10 keys, every sequence
\* at most 2 elements, and no mapping is nested more than 3 deep (a deeper one
\* is the `truncated` marker), those inside sequences included.
C24_ExampleBounded ==
  \A i \in DOMAIN endpoints_map :
    BoundedExample(endpoints_map[i][2].response_example, 0)

\* ---------------------------------------------------------------------------
\* C25: the hosts the service name comes from

\* the relevant records of the trace, in order
RelevantRecords == SelectSeq(entries, LAMBDA e : ~ NotRelevant(e))

\* the hosts of the relevant records that contain `api`
RelevantApiHosts ==
  {RelevantRecords[i].netloc : i \in {j \in DOMAIN RelevantRecords :
      Contains(Lower(RelevantRecords[j].netloc), Chars("api"))}}

\* C25: the service name parse() returns is the name of a host of a relevant
\* record: of one that contains `api` if there is one, otherwise of the host
\* of the first relevant record of the trace; it is never the name of a host
\* that only non-relevant records have.
C25_NameFromRelevantHosts ==
  pc # "parse" =>
    /\ RelevantRecords # <<>> =>
         IF RelevantApiHosts # {}
           THEN service.name \in {HostToName(h) : h \in RelevantApiHosts}
           ELSE service.name = HostToName(RelevantRecords[1].netloc)
    /\ \A i \in DOMAIN entries :
         (/\ NotRelevant(entries[i])
          /\ \A j \in DOMAIN RelevantRecords :
               HostToName(RelevantRecords[j].netloc) # HostToName(entries[i].netloc))
         => service.name # HostToName(entries[i].netloc)

\* ---------------------------------------------------------------------------
\* C26, C27: the token cache of the generated auth module

\* the environment selects oauth2_client_credentials
OAuth2Selected == SelectedScheme = Chars("oauth2_client_credentials")

\* and sets the client id, the client secret and the token URL
OAuth2Configured ==
  /\ OAuth2Selected
  /\ <<>> \notin {Setting("_OAUTH2_CLIENT_ID"), Setting("_OAUTH2_CLIENT_SECRET"),
                  Setting("_OAUTH2_TOKEN_URL")}

\* the step is a call of get_auth_headers()
IsCall == rt.phase = "ready" /\ rt'.calls = rt.calls + 1

\* the answer of the token endpoint is a success: a token, with a number of
\* seconds or none
IssuesToken(response) ==
  /\ response.ok
  /\ response.token_data.t = "obj"
  /\ JGet(response.token_data, Chars("access_token")).t = "str"
  /\ JGet(response.token_data, Chars("expires_in")).t \in {"int", "null"}

\* the seconds the token of a successful answer lives, 3600 when it has none
LifetimeOf(response) ==
  IF JGet(response.token_data, Chars("expires_in")).t = "int"
    THEN IntOf(JGet(response.token_data, Chars("expires_in")).v)
    ELSE 3600

\* C26: under oauth2_client_credentials with client id, secret and token URL
\* set, a call of get_auth_headers() fetches a token if and only if none is
\* cached or the time is 60 seconds before the expiry of the cached one or
\* later; otherwise it returns the cached token as the bearer header and
\* leaves the cache alone; after a fetch the endpoint answered with a token,
\* the cache holds that token and its expiry is the time of the call plus the
\* expires_in of the answer (3600 when it has none).
C26_TokenCache ==
  [][(IsCall /\ OAuth2Configured) =>
       LET cached == rt.manager.oauth2_token
           fresh  == cached # None /\ rt'.now < rt.manager.token_expiry - 60
       IN /\ rt'.fetched <=> ~ fresh
          /\ fresh => /\ rt'.headers = <<<<Chars("Authorization"),
                                           Chars("Bearer ") \o cached.v>>>>
                      /\ rt'.manager = rt.manager
          /\ (rt'.fetched /\ IssuesToken(rt'.response)) =>
               /\ rt'.manager.oauth2_token
                    = JGet(rt'.response.token_data, Chars("access_token"))
               /\ rt'.manager.token_expiry = rt'.now + LifetimeOf(rt'.response)
               /\ rt'.headers = <<<<Chars("Authorization"),
                                    Chars("Bearer ") \o rt'.manager.oauth2_token.v>>>>]_vars

\* the second call, at the time 50, returned the token tokA fetched before,
\* which expires at 120, without a fetch
C26_Witness ==
  /\ OAuth2Configured
  /\ rt.calls = 2
  /\ rt.now = 50
  /\ ~ rt.fetched
  /\ rt.manager.oauth2_token = JStr(Chars("tokA"))
  /\ rt.manager.token_expiry = 120
  /\ rt.headers = <<<<Chars("Authorization"), Chars("Bearer tokA")>>>>

\* C27: under oauth2_client_credentials, a call of get_auth_headers() whose
\* fetch fails (the post fails or is answered with an error status) or that
\* lacks the client id, the client secret or the token URL returns no header
\* and leaves the cached token and its expiry as they were; the call after a
\* failed fetch fetches again.
C27_FailedFetch ==
  [][(IsCall /\ OAuth2Selected) =>
       /\ (~ OAuth2Configured \/ (rt'.fetched /\ ~ rt'.response.ok))
            => /\ rt'.headers = <<>>
               /\ rt'.manager.oauth2_token = rt.manager.oauth2_token
               /\ rt'.manager.token_expiry = rt.manager.token_expiry
       /\ (OAuth2Configured /\ rt.fetched /\ ~ rt.response.ok) => rt'.fetched]_vars

\* a fetch failed at the time 100 while the token tokA, which expires at 120,
\* was cached: no header was returned and the cache is as it was
C27_Witness ==
  /\ OAuth2Configured
  /\ rt.calls = 2
  /\ rt.now = 100
  /\ rt.fetched
  /\ ~ rt.response.ok
  /\ rt.headers = <<>>
  /\ rt.manager.oauth2_token = JStr(Chars("tokA"))
  /\ rt.manager.token_expiry = 120

\* ---------------------------------------------------------------------------
\* C28: the credentials in the ServiceInfo

\* the credential of a credential-carrying header: what follows the scheme
\* word of a recognized header (`Bearer <secret>`, `Basic <secret>`), its
\* whole value when it has none, the whole value of a cookie header
CredentialOf(header) ==
  IF Lower(header.name) \in RecognizedNames
    THEN SplitOn(header.value, " ")[Len(SplitOn(header.value, " "))]
    ELSE header.value

\* the credentials of the request headers of the trace; a value that is the
\* word Bearer alone holds none
CredentialValues ==
  UNION {{CredentialOf(entries[i].headers[k]) :
            k \in {h \in DOMAIN entries[i].headers :
                     /\ CarriesCredential(entries[i].headers[h])
                     /\ Lower(entries[i].headers[h].value) # Chars("bearer")}} :
           i \in DOMAIN entries}

\* the texts an endpoint of the ServiceInfo holds
EndpointTexts(endpoint) ==
  {endpoint.method, endpoint.path, endpoint.base_url, endpoint.full_url,
   endpoint.content_type}
  \cup {endpoint.headers[k][1] : k \in DOMAIN endpoint.headers}
  \cup {endpoint.headers[k][2] : k \in DOMAIN endpoint.headers}

\* the texts an auth pattern holds
PatternTexts(pattern) == {pattern.header_name, pattern.example_value}

\* C28: the ServiceInfo parse() returned retains the credential value of no
\* recognized auth header or auth cookie of the trace: no text of an auth
\* pattern and no text of an endpoint, its stored headers and full URL
\* included, contains it.
C28_NoCredentialRetained ==
  pc # "parse" =>
    \A value \in CredentialValues :
      /\ \A n \in DOMAIN service.auth_patterns :
           \A text \in PatternTexts(service.auth_patterns[n]) : ~ Contains(text, value)
      /\ \A n \in DOMAIN service.endpoints :
           \A text \in EndpointTexts(service.endpoints[n]) : ~ Contains(text, value)

\* ---------------------------------------------------------------------------
\* C29: the names of the tools of a ServiceInfo

\* C29: the descriptors generated for two endpoints of the ServiceInfo never
\* have the same tool name, also when the endpoints differ in a trailing
\* slash, in punctuation or in their host alone.
C29_ToolNamesUnique ==
  (pc = "generated" /\ ~ fs.error) =>
    \A i, j \in DOMAIN service.endpoints :
      i # j => GeneratedServerPy.tools[i].name # GeneratedServerPy.tools[j].name

\* ---------------------------------------------------------------------------
\* C30: the base URL of the ServiceInfo and its contents

\* the host of a base URL <scheme>://<host>
HostOfBaseUrl(url) == SplitOn(url, "/")[Len(SplitOn(url, "/"))]

\* C30: in a ServiceInfo parse() returned with at least one endpoint, the base
\* URL of every endpoint is the base URL of the ServiceInfo, and the service
\* name is the name derived from the host of that base URL.
C30_BaseUrlConsistent ==
  (pc # "parse" /\ service.endpoints # <<>>) =>
    /\ \A n \in DOMAIN service.endpoints :
         service.endpoints[n].base_url = service.base_url
    /\ service.name = HostToName(HostOfBaseUrl(service.base_url))

====
